---- MODULE Spec2Model ----
(***************************************************************************)
(* Event synchronisation and reconciliation of the camera management       *)
(* backend (backend/app/api/v1/endpoints/events.py).                       *)
(*                                                                         *)
(* File names are sequences of one-character strings, so that the          *)
(* normaliser lower-cases and strips extensions the way the code does.     *)
(* The event table is a sequence of rows.  Every request has its own       *)
(* database session: rows added or changed by a running sync pass stay in  *)
(* that session (pending, dirty) until the pass commits.                   *)
(***************************************************************************)
EXTENDS Integers, Sequences, FiniteSets, TLC

None == "None"

\* the NULL of the file_path column
NoPath == <<>>

(* ---------------------------------------------------------------------- *)
(* Bounds of the model                                                     *)
(* ---------------------------------------------------------------------- *)
NumProcs == 2
\* sync requests, environment changes and user actions of a behaviour
MaxPasses == 2
MaxEnvOps == 3
MaxUserOps == 1
\* environment changes of a behaviour with overlapping requests
MaxRaceEnvOps == 2
\* session and mail changes, and websocket sessions, of a behaviour
MaxNotifyOps == 3
MaxSessions == 2
\* session and mail changes of a behaviour with a health check
MaxDispatchOps == 2
\* changes of the sources and of the sessions and the mail server around a
\* pass whose deliveries fail
MaxFailureEnvOps == 2
MaxFailureOps == 2
\* environment changes of a behaviour with sessions
MaxNotifyEnvOps == 1
\* requests and environment changes of a behaviour with store outages
MaxStorePasses == 1
MaxStoreEnvOps == 3
\* environment changes and user actions of a behaviour with retention
\* cleanup, and the rows an explicit delete can name
MaxRetentionEnvOps == 3
MaxRetentionUserOps == 3
MaxRetentionRows == 3
\* largest CAMERA_RETRY_ATTEMPTS a client is configured with
MaxRetryAttempts == 3
\* length of the base names normalize_filename is called on
MaxBaseLen == 2
\* tasks a monitor creates, check cycles and camera changes of a behaviour
MaxTasks == 2
MaxCycles == 2
MaxMonitorEnvOps == 2

Procs == 1..NumProcs

(* ---------------------------------------------------------------------- *)
(* Cameras registered in the database (rows of the cameras table)          *)
(* ---------------------------------------------------------------------- *)
Cameras == {1, 2}

\* the camera_id query parameter left out (or 0, which "if camera_id:" treats alike)
NoCamera == 0

cameraName == [c \in Cameras |-> IF c = 1 THEN <<"c">> ELSE <<"B">>]

(* ---------------------------------------------------------------------- *)
(* File names and camera records the environment can produce               *)
(* ---------------------------------------------------------------------- *)
F_a == <<"a">>
F_a_mp4 == <<"a", ".", "m", "p", "4">>
F_A_MP4 == <<"A", ".", "M", "P", "4">>
F_b == <<"b">>
F_b_avi == <<"b", ".", "a", "v", "i">>

\* an integer column that is None or 0, which "if not x" treats alike
NoTime == 0

\* CameraEvent records: fileName, eventName, whether triggeredAt is an ISO
\* string datetime.fromisoformat accepts, vidExt, thmbExt and playbackTime
CamRecs == <<
    [fileName |-> F_a, eventName |-> None, triggeredAt |-> "iso",
     vidExt |-> "mp4", thmbExt |-> "jpg", playbackTime |-> 5],
    [fileName |-> F_b, eventName |-> "ev", triggeredAt |-> "garbled",
     vidExt |-> "mp4", thmbExt |-> "jpg", playbackTime |-> 5],
    [fileName |-> F_a_mp4, eventName |-> "ev", triggeredAt |-> "iso",
     vidExt |-> "mov", thmbExt |-> "png", playbackTime |-> 7] >>

\* the records each camera can come to report (indices of CamRecs)
Reports == [c \in Cameras |-> IF c = 1 THEN {1, 3} ELSE {2, 3}]

DropNames == {F_a_mp4, F_A_MP4, F_b_avi}

(* ---------------------------------------------------------------------- *)
(* Rows of the users table: the notification targets                       *)
(* ---------------------------------------------------------------------- *)
Users == <<
    [id |-> 1, is_active |-> TRUE, email_notifications |-> TRUE,
     event_notifications |-> TRUE],
    [id |-> 2, is_active |-> TRUE, email_notifications |-> FALSE,
     event_notifications |-> TRUE],
    [id |-> 3, is_active |-> TRUE, email_notifications |-> TRUE,
     event_notifications |-> FALSE],
    [id |-> 4, is_active |-> FALSE, email_notifications |-> TRUE,
     event_notifications |-> TRUE] >>

UserIds == {Users[i].id : i \in 1..Len(Users)}

(* ---------------------------------------------------------------------- *)
(* normalize_filename                                                      *)
(* ---------------------------------------------------------------------- *)
extensions == <<
    <<".", "m", "p", "4">>, <<".", "a", "v", "i">>, <<".", "m", "o", "v">>,
    <<".", "m", "k", "v">>, <<".", "w", "m", "v">>, <<".", "f", "l", "v">> >>

LowerChar(ch) ==
    CASE ch = "A" -> "a"
      [] ch = "B" -> "b"
      [] ch = "C" -> "c"
      [] ch = "M" -> "m"
      [] ch = "P" -> "p"
      [] ch = "V" -> "v"
      [] ch = "I" -> "i"
      [] ch = "O" -> "o"
      [] ch = "K" -> "k"
      [] ch = "W" -> "w"
      [] ch = "F" -> "f"
      [] ch = "L" -> "l"
      [] ch = "S" -> "s"
      [] OTHER -> ch

Lower(s) == [i \in 1..Len(s) |-> LowerChar(s[i])]

\* the letter U+00DF, which str.lower leaves alone and str.upper writes "SS"
SharpS == "sharp s"

\* str.upper of one character
UpperChar(ch) ==
    CASE ch = "a" -> <<"A">>
      [] ch = "b" -> <<"B">>
      [] ch = "c" -> <<"C">>
      [] ch = "m" -> <<"M">>
      [] ch = "p" -> <<"P">>
      [] ch = "v" -> <<"V">>
      [] ch = "i" -> <<"I">>
      [] ch = "o" -> <<"O">>
      [] ch = "k" -> <<"K">>
      [] ch = "w" -> <<"W">>
      [] ch = "f" -> <<"F">>
      [] ch = "l" -> <<"L">>
      [] ch = "s" -> <<"S">>
      [] ch = SharpS -> <<"S", "S">>
      [] OTHER -> <<ch>>

RECURSIVE Upper(_)
Upper(s) == IF s = <<>> THEN <<>> ELSE UpperChar(Head(s)) \o Upper(Tail(s))

EndsWith(s, suffix) ==
    /\ Len(s) >= Len(suffix)
    /\ SubSeq(s, Len(s) - Len(suffix) + 1, Len(s)) = suffix

Contains(s, sub) ==
    \E i \in 0..(Len(s) - Len(sub)) : SubSeq(s, i + 1, i + Len(sub)) = sub

Min(S) == CHOOSE x \in S : \A y \in S : x <= y

normalize_filename(filename) ==
    LET base_name == Lower(filename)
        hits == {i \in 1..Len(extensions) : EndsWith(base_name, extensions[i])}
    IN  IF hits = {} THEN base_name
        ELSE SubSeq(base_name, 1, Len(base_name) - Len(extensions[Min(hits)]))

\* the lookup as it would be if it compared the raw names
find_matching_event_by_raw_name(db_events, target_filename) ==
    LET hits == {i \in 1..Len(db_events) : db_events[i].filename = target_filename}
    IN  IF hits = {} THEN 0 ELSE Min(hits)

\* index of the first event of db_events with the target's key, 0 when none
find_matching_event_by_filename(db_events, target_filename) ==
    LET normalized_target == normalize_filename(target_filename)
        hits == {i \in 1..Len(db_events) :
                    normalize_filename(db_events[i].filename) = normalized_target}
    IN  IF hits = {} THEN 0 ELSE Min(hits)

\* the drop-directory scan's own extension filter
IsVideoFile(fname) ==
    \/ EndsWith(Lower(fname), <<".", "m", "p", "4">>)
    \/ EndsWith(Lower(fname), <<".", "a", "v", "i">>)
    \/ EndsWith(Lower(fname), <<".", "m", "o", "v">>)

(* ---------------------------------------------------------------------- *)
(* State                                                                   *)
(* ---------------------------------------------------------------------- *)
VARIABLES
    events,      \* committed rows of the events table
    nextId,      \* next value of the primary-key sequence
    camListing,  \* camera -> set of indices of CamRecs the camera reports
    camUp,       \* camera -> whether its REST API answers
    dropDir,     \* names of the files in the ftpdata directory, in directory order
    ftp_dir,     \* whether the ftpdata directory exists
    storage,     \* <<camera_id, filename>> of the files under STORAGE_PATH/events
    pc,          \* position of each sync_events request
    todo,        \* cameras the request still has to visit
    files,       \* drop-directory names the request still has to visit
    pending,     \* rows added in the request's session, not committed
    dirty,       \* <<id, column, value>> written on stored rows, not committed
    counters,    \* total_new_events, total_camera_events, len(cameras)
    summary,     \* body of the last response of the request
    failed,      \* cameras whose loop iteration ended in the except branch
    hist,        \* history of the passes, for stating the properties
    budget,      \* remaining passes, environment changes and user actions
    userRows,    \* the users table, in the order select(User) returns its rows
    connections, \* WebSocketManager.active_connections: user id -> set of sessions
    sessions,    \* the websocket sessions ever opened: user, queue, state of the handler
    broken,      \* sessions whose queue.put raises
    mailDown,    \* user ids whose mail the SMTP server fails to take
    attempts,    \* the deliveries the dispatcher attempted, in order
    dbUp,        \* whether the event store answers
    registered,  \* ids of the rows of the cameras table
    norm,        \* the last call of normalize_filename: its input and its result
    req,         \* per camera, the call of CameraClient._make_request in progress
    retention,   \* the retention settings, and the newest id whose row is older
                 \* than the retention age
    passLog,     \* per request: the table when its pass started, and whether
                 \* the pass met the store unavailable
    online,      \* Camera.is_online and Camera.last_seen (the number of stamps)
    mon          \* the background monitors: running flag, task, stop() caller

\* the functions and the client examined on their own, the retention
\* settings and the existence of the drop directory, which no request,
\* session or monitor touches
units == <<norm, req, retention, ftp_dir>>

\* what a dispatch changes
notifyState == <<connections, sessions, attempts>>

\* what the sync pass and the per-event endpoints never touch
others == <<userRows, units, broken, mailDown, dbUp, registered, passLog, online, mon>>

vars == <<events, nextId, camListing, camUp, dropDir, storage, pc, todo, files,
          pending, dirty, counters, summary, failed, hist, budget,
          userRows, connections, sessions, broken, mailDown, attempts,
          dbUp, registered, passLog, online, mon, norm, req, retention, ftp_dir>>

(* ---------------------------------------------------------------------- *)
(* Helpers over rows and sessions                                          *)
(* ---------------------------------------------------------------------- *)
Range(s) == {s[i] : i \in 1..Len(s)}

\* all the orders in which the elements of a finite set can be returned
SeqsOf(S) == {s \in [1..Cardinality(S) -> S] : Range(s) = S}

\* an Event row with the column defaults of the model class; is_orphaned and
\* is_played are the attributes the endpoints write and EventResponse reads
\* (default False), event_metadata is set by the camera section only
Event(id, camera_id, filename, event_name, file_path, is_downloaded, event_metadata) ==
    [id |-> id, camera_id |-> camera_id, filename |-> filename,
     event_name |-> event_name, file_path |-> file_path,
     is_downloaded |-> is_downloaded, is_deleted |-> FALSE,
     is_orphaned |-> FALSE, is_played |-> FALSE,
     event_metadata |-> event_metadata,
     video_extension |-> None, thumbnail_extension |-> None, playback_time |-> NoTime]

\* the row the camera section builds for a record
CameraRow(camera, camera_event) ==
    [Event(0, camera, camera_event.fileName, camera_event.eventName, NoPath, FALSE,
           "age_dir")
        EXCEPT !.video_extension = camera_event.vidExt,
               !.thumbnail_extension = camera_event.thmbExt,
               !.playback_time = camera_event.playbackTime]

\* the columns the merge of a camera record can write
DescriptiveFields == {"event_name", "video_extension", "thumbnail_extension",
                      "playback_time"}

\* a column of a row with the session's unflushed write of it, if any
Written(d, row, field) ==
    IF \E u \in d : u[1] = row.id /\ u[2] = field
    THEN (CHOOSE u \in d : u[1] = row.id /\ u[2] = field)[3]
    ELSE row[field]

\* rows with the session's unflushed attribute writes applied
ApplyDirty(rows, d) ==
    [i \in 1..Len(rows) |->
        [rows[i] EXCEPT !.event_name = Written(d, rows[i], "event_name"),
                        !.video_extension = Written(d, rows[i], "video_extension"),
                        !.thumbnail_extension = Written(d, rows[i], "thumbnail_extension"),
                        !.playback_time = Written(d, rows[i], "playback_time")]]

\* what select(Event) returns inside the session of request p: the committed
\* rows and the session's own flushed rows, with its own writes
SessionRows(p) == ApplyDirty(events \o pending[p], dirty[p])

\* select(Event) has no ORDER BY: the rows come back in any order
Reorder(rows, perm) == [i \in 1..Len(rows) |-> rows[perm[i]]]

\* os.path.exists(file_path)
PathExists(path) ==
    /\ path # NoPath
    /\ \/ path[1] = "ftpdata" /\ path[2] \in Range(dropDir)
       \/ path[1] = "storage" /\ <<path[2], path[3]>> \in storage

\* the CameraEvent list get_events returns for a camera
ListingOf(c) ==
    LET idx == camListing[c]
        F[i \in 0..Len(CamRecs)] ==
            IF i = 0 THEN <<>>
            ELSE IF i \in idx THEN Append(F[i - 1], CamRecs[i]) ELSE F[i - 1]
    IN  F[Len(CamRecs)]

(* ---------------------------------------------------------------------- *)
(* NotificationService: the push channel (one queue per websocket session) *)
(* and the email channel.  A dispatch works on a record st of the          *)
(* connection registry, the sessions and the log of attempts.              *)
(* ---------------------------------------------------------------------- *)
\* NotificationPayload of a new event, and of a camera status change
EventMsg(event_id) == <<"event_captured", event_id>>

StatusMsg(camera, is_online) ==
    <<IF is_online THEN "camera_online" ELSE "camera_offline", camera>>

\* an entry of the log: a call of send_to_user or of send_email, and whether
\* a queue.put (or the SMTP send) raised in it
Attempt(msg, user_id, channel, raised) ==
    [msg |-> msg, user |-> user_id, channel |-> channel, raised |-> raised]

\* a dictionary without one key
WithoutKey(d, k) == [x \in DOMAIN d \ {k} |-> d[x]]

\* disconnect as it would be if it kept the entry of a user left without session
DisconnectedKeepsEntry(conns, user_id, qs) ==
    IF user_id \notin DOMAIN conns THEN conns
    ELSE [conns EXCEPT ![user_id] = @ \ qs]

\* WebSocketManager.disconnect
Disconnected(conns, user_id, qs) ==
    IF user_id \notin DOMAIN conns THEN conns
    ELSE IF conns[user_id] \ qs = {} THEN WithoutKey(conns, user_id)
    ELSE [conns EXCEPT ![user_id] = @ \ qs]

\* the sessions with a message put on each queue of qs
Enqueued(sess, qs, msg) ==
    [q \in DOMAIN sess |->
        IF q \in qs THEN [sess[q] EXCEPT !.queue = Append(@, msg)] ELSE sess[q]]

\* send_to_user as it would be if it put the message twice on a queue
send_to_user_twice(st, user_id, msg) ==
    IF user_id \notin DOMAIN st.connections THEN st
    ELSE LET qs == st.connections[user_id]
             bad == qs \cap broken
         IN  [st EXCEPT
                !.sessions = Enqueued(Enqueued(@, qs \ bad, msg), qs \ bad, msg),
                !.connections = Disconnected(@, user_id, bad)]

\* WebSocketManager.send_to_user: nothing for a user without registered
\* session; else one put on each queue of a copy of the user's set, and a
\* queue whose put raises is removed from the registry
send_to_user(st, user_id, msg) ==
    IF user_id \notin DOMAIN st.connections THEN st
    ELSE LET qs == st.connections[user_id]
             bad == qs \cap broken
         IN  [st EXCEPT
                !.sessions = Enqueued(@, qs \ bad, msg),
                !.connections = Disconnected(@, user_id, bad)]

\* whether a put of send_to_user raises for the user
PutRaises(st, user_id) ==
    /\ user_id \in DOMAIN st.connections
    /\ st.connections[user_id] \cap broken # {}

\* EmailService.send_email: catches the SMTP error and returns False
send_email(user_id) == user_id \notin mailDown

\* the loop body as it would be if a failed put kept the email from being tried
NotifyUserPushGuardsEmail(st, user, msg, wants_email) ==
    LET pushed == send_to_user(st, user.id, msg)
        a1 == Append(st.attempts, Attempt(msg, user.id, "push", PutRaises(st, user.id)))
    IN  [pushed EXCEPT !.attempts =
            IF wants_email /\ ~PutRaises(st, user.id)
            THEN Append(a1, Attempt(msg, user.id, "email", ~send_email(user.id)))
            ELSE a1]

\* the body of the loop over the users: the push, then the email if wanted
NotifyUser(st, user, msg, wants_email) ==
    LET pushed == send_to_user(st, user.id, msg)
        a1 == Append(st.attempts, Attempt(msg, user.id, "push", PutRaises(st, user.id)))
    IN  [pushed EXCEPT !.attempts =
            IF wants_email
            THEN Append(a1, Attempt(msg, user.id, "email", ~send_email(user.id)))
            ELSE a1]

\* whether the delivery to a user meets a failure on either channel
DeliveryFails(st, user, wants_email) ==
    PutRaises(st, user.id) \/ (wants_email /\ ~send_email(user.id))

RECURSIVE send_event_notification_until_failure(_, _, _)
\* the loop as it would be if a failed delivery ended it
send_event_notification_until_failure(st, msg, users) ==
    IF users = <<>> THEN st
    ELSE LET user == Head(users)
             next == NotifyUser(st, user, msg, user.email_notifications)
         IN  IF DeliveryFails(st, user, user.email_notifications) THEN next
             ELSE send_event_notification_until_failure(next, msg, Tail(users))

RECURSIVE send_event_notification(_, _, _)
\* NotificationService.send_event_notification: every user of the list
send_event_notification(st, msg, users) ==
    IF users = <<>> THEN st
    ELSE LET user == Head(users)
         IN  send_event_notification(
                NotifyUser(st, user, msg, user.email_notifications), msg, Tail(users))

RECURSIVE send_camera_status_notification(_, _, _, _)
\* NotificationService.send_camera_status_notification: email for offline only
send_camera_status_notification(st, camera, is_online, users) ==
    IF users = <<>> THEN st
    ELSE LET user == Head(users)
         IN  send_camera_status_notification(
                NotifyUser(st, user, StatusMsg(camera, is_online),
                           user.email_notifications /\ ~is_online),
                camera, is_online, Tail(users))

\* select(User).where(User.is_active == True)
ActiveUsers == SelectSeq(userRows, LAMBDA u : u.is_active)

\* the registry, the sessions and the log as they stand
NotifyNow == [connections |-> connections, sessions |-> sessions, attempts |-> attempts]

\* the loop as it would be if it ended after the first new event
NotifyNewEventsFirstOnly(st, new_events, users) ==
    IF new_events = <<>> THEN st
    ELSE send_event_notification(st, EventMsg(Head(new_events).id), users)

RECURSIVE NotifyNewEvents(_, _, _)
\* "Send notifications for each new event"
NotifyNewEvents(st, new_events, users) ==
    IF new_events = <<>> THEN st
    ELSE NotifyNewEvents(send_event_notification(st, EventMsg(Head(new_events).id), users),
                         Tail(new_events), users)

\* the state a dispatch leaves
Notified(st) ==
    /\ connections' = st.connections
    /\ sessions' = st.sessions
    /\ attempts' = st.attempts

(* ---------------------------------------------------------------------- *)
(* sync_events: the loop body over one camera's records                    *)
(* ---------------------------------------------------------------------- *)
\* the test as it would be if no record were ever taken as known
NeverKnownToCamera(existing_events, camera_event) == FALSE

\* whether a record is already known under this camera by its exact name
KnownToCamera(existing_events, camera_event) ==
    camera_event.fileName \in existing_events

\* the merge as it would be if the record's values replaced the row's
BackfillOverwrites(matching_event, camera_event) ==
    [matching_event EXCEPT
        !.event_name = IF camera_event.eventName # None THEN camera_event.eventName ELSE @,
        !.video_extension = IF camera_event.vidExt # None THEN camera_event.vidExt ELSE @,
        !.thumbnail_extension =
            IF camera_event.thmbExt # None THEN camera_event.thmbExt ELSE @,
        !.playback_time =
            IF camera_event.playbackTime # NoTime THEN camera_event.playbackTime ELSE @]

\* "update the existing event with camera information if it's missing": the
\* matching event as the four "if not ... and ..." statements leave it
Backfill(matching_event, camera_event) ==
    [matching_event EXCEPT
        !.event_name =
            IF @ = None /\ camera_event.eventName # None THEN camera_event.eventName ELSE @,
        !.video_extension =
            IF @ = None /\ camera_event.vidExt # None THEN camera_event.vidExt ELSE @,
        !.thumbnail_extension =
            IF @ = None /\ camera_event.thmbExt # None THEN camera_event.thmbExt ELSE @,
        !.playback_time =
            IF @ = NoTime /\ camera_event.playbackTime # NoTime
            THEN camera_event.playbackTime ELSE @]

RECURSIVE ProcessCameraEventsUntilGarbled(_, _, _, _, _)
\* the loop as it would be if a record that does not parse ended it
ProcessCameraEventsUntilGarbled(camera_events, all_existing_events, existing_events, camera, new_events) ==
    IF camera_events = <<>>
    THEN [all |-> all_existing_events, new |-> new_events]
    ELSE
        LET camera_event == Head(camera_events)
            rest == Tail(camera_events)
            m == find_matching_event_by_filename(all_existing_events, camera_event.fileName)
        IN  IF KnownToCamera(existing_events, camera_event)
            THEN ProcessCameraEventsUntilGarbled(rest, all_existing_events, existing_events,
                                                 camera, new_events)
            ELSE IF m = 0
            THEN IF camera_event.triggeredAt # "iso"
                 THEN [all |-> all_existing_events, new |-> new_events]
                 ELSE ProcessCameraEventsUntilGarbled(rest, all_existing_events,
                        existing_events, camera,
                        Append(new_events,
                               CameraRow(camera, camera_event)))
            ELSE ProcessCameraEventsUntilGarbled(rest,
                    [all_existing_events EXCEPT ![m] = Backfill(@, camera_event)],
                    existing_events, camera, new_events)

RECURSIVE ProcessCameraEvents(_, _, _, _, _)
\* returns the rows as left by the backfills and the new_events list
ProcessCameraEvents(camera_events, all_existing_events, existing_events, camera, new_events) ==
    IF camera_events = <<>>
    THEN [all |-> all_existing_events, new |-> new_events]
    ELSE
        LET camera_event == Head(camera_events)
            rest == Tail(camera_events)
            m == find_matching_event_by_filename(all_existing_events, camera_event.fileName)
        IN  IF KnownToCamera(existing_events, camera_event)
            THEN ProcessCameraEvents(rest, all_existing_events, existing_events, camera, new_events)
            ELSE IF m = 0
            THEN IF camera_event.triggeredAt # "iso"
                 THEN ProcessCameraEvents(rest, all_existing_events, existing_events, camera, new_events)
                 ELSE ProcessCameraEvents(rest, all_existing_events, existing_events, camera,
                        Append(new_events,
                               CameraRow(camera, camera_event)))
            ELSE ProcessCameraEvents(rest,
                    [all_existing_events EXCEPT ![m] = Backfill(@, camera_event)],
                    existing_events, camera, new_events)

\* the primary keys the flush gives to the rows of new_events
WithIds(new_events, first) ==
    [i \in 1..Len(new_events) |-> [new_events[i] EXCEPT !.id = first + i - 1]]

\* the attribute writes a loop made on already stored rows
Backfills(before, after) ==
    {<<after[w[1]].id, w[2], after[w[1]][w[2]]>> : w \in
        {x \in (1..Len(after)) \X DescriptiveFields :
            after[x[1]][x[2]] # before[x[1]][x[2]]}}

(* ---------------------------------------------------------------------- *)
(* Initial state: empty catalog, nothing captured yet, no request running  *)
(* ---------------------------------------------------------------------- *)
NoCounters == [total_new_events |-> 0, total_camera_events |-> 0, cameras |-> {}]

\* the history kept for stating the properties: the table when the running
\* pass started (start), whether nothing but that pass has happened since
\* (clean), how many passes (up to 2) have run back to back over the same
\* cameras with nothing else in between (run), and the cameras and the final
\* table of the last of them
NoHistory == [start |-> <<>>, clean |-> FALSE, run |-> 0, lastCameras |-> {},
              lastEnd |-> <<>>, unchanged |-> FALSE, last |-> 0]

\* normalize_filename not called yet
NoCall == [base |-> <<>>, ext |-> <<>>, upper |-> FALSE, filename |-> <<>>, key |-> <<>>]

\* no call of _make_request made yet on a camera's client
NoRequest == [retry_attempts |-> 0, at |-> "idle", attempt |-> 0, requests |-> 0,
              slept |-> <<>>, response |-> "none"]

\* the log of a request that has not started a pass
NoPass == [start |-> <<>>, store_failed |-> FALSE]

\* the background monitors, and a monitor never started
Services == {"health", "time"}

\* running and task are the attributes of the service object (task: index of
\* the task in tasks, 0 for None); a task is at "created" before its first
\* step, at "checking" inside _check_all_cameras, at "sleeping" in
\* asyncio.sleep(check_interval), and "finished" or "cancelled" when done;
\* cancel says that task.cancel() was called and the CancelledError is still
\* to be thrown at the await the task is suspended in; stop and awaited are
\* the position of the stop() call and the task it awaits
NoMonitor == [running |-> FALSE, task |-> 0, tasks |-> <<>>, stop |-> "idle",
              awaited |-> 0]

NoMonitors == [svc \in Services |-> NoMonitor]

\* the state after start-up with a budget b and the cameras already registered
InitOf(b, cameras) ==
    /\ events = <<>>
    /\ nextId = 1
    /\ camListing = [c \in Cameras |-> {}]
    /\ camUp = [c \in Cameras |-> TRUE]
    /\ dropDir = <<>>
    /\ ftp_dir = TRUE
    /\ storage = {}
    /\ pc = [p \in Procs |-> "idle"]
    /\ todo = [p \in Procs |-> <<>>]
    /\ files = [p \in Procs |-> <<>>]
    /\ pending = [p \in Procs |-> <<>>]
    /\ dirty = [p \in Procs |-> {}]
    /\ counters = [p \in Procs |-> NoCounters]
    /\ summary = [p \in Procs |-> None]
    /\ failed = [p \in Procs |-> {}]
    /\ hist = NoHistory
    /\ budget = b
    /\ userRows = Users
    /\ connections = <<>>
    /\ sessions = <<>>
    /\ broken = {}
    /\ mailDown = {}
    /\ attempts = <<>>
    /\ dbUp = TRUE
    /\ registered = cameras
    /\ passLog = [p \in Procs |-> NoPass]
    /\ norm = NoCall
    /\ req = [c \in Cameras |-> NoRequest]
    /\ retention = [settings |-> "missing", aged |-> 0]
    /\ online = [c \in Cameras |-> [is_online |-> FALSE, last_seen |-> 0]]
    /\ mon = NoMonitors

InitWith(b) == InitOf(b, Cameras)

\* a budget: sync requests, environment changes, user actions, session and
\* mail changes, monitor cycles
Budget(passes, env, user, notify, cycles) ==
    [passes |-> passes, env |-> env, user |-> user, notify |-> notify, cycles |-> cycles]

Init == InitWith(Budget(MaxPasses, MaxEnvOps, MaxUserOps, 0, 0))

InitUnattended == InitWith(Budget(MaxPasses, MaxEnvOps, 0, 0, 0))

InitRace == InitWith(Budget(MaxPasses, MaxRaceEnvOps, 0, 0, 0))

\* no pass running: none yet, or the last one returned its summary, raised
\* its HTTP 500, or was cancelled
Resting(p) == pc[p] \in {"idle", "done", "raised", "cancelled"}

\* an environment change or a user action ends the run of undisturbed passes
Disturbed == NoHistory

(* ---------------------------------------------------------------------- *)
(* sync_events, one action per stretch between suspension points           *)
(* ---------------------------------------------------------------------- *)
\* the request arrives, is served in the first free slot, and selects the
\* cameras to visit
SyncStart(p, camera_id) ==
    /\ Resting(p)
    /\ \A q \in Procs : q < p => ~Resting(q)
    /\ budget.passes > 0
    /\ dbUp
    /\ IF camera_id # NoCamera THEN camera_id \in registered ELSE registered # {}
    /\ LET cameras == IF camera_id # NoCamera THEN {camera_id} ELSE registered
       IN  /\ \E order \in SeqsOf(cameras) : todo' = [todo EXCEPT ![p] = order]
           /\ counters' = [counters EXCEPT ![p] = [NoCounters EXCEPT !.cameras = cameras]]
    /\ pc' = [pc EXCEPT ![p] = "cameras"]
    /\ failed' = [failed EXCEPT ![p] = {}]
    /\ summary' = [summary EXCEPT ![p] = None]
    /\ files' = [files EXCEPT ![p] = <<>>]
    /\ hist' = IF \A q \in Procs : Resting(q)
               THEN [hist EXCEPT !.start = events, !.clean = TRUE]
               ELSE NoHistory
    /\ budget' = [budget EXCEPT !.passes = @ - 1]
    /\ passLog' = [passLog EXCEPT ![p] = [start |-> events, store_failed |-> FALSE]]
    /\ UNCHANGED <<events, nextId, camListing, camUp, dropDir, storage, pending, dirty>>
    /\ UNCHANGED <<notifyState, userRows, units, broken, mailDown, dbUp, registered, online, mon>>

\* the except branch as it would be if a failed fetch counted as the camera
\* holding no events
CameraFetchFailsAsEmpty(p) ==
    /\ pc[p] = "cameras"
    /\ todo[p] # <<>>
    /\ ~camUp[Head(todo[p])]
    /\ failed' = [failed EXCEPT ![p] = @ \cup {Head(todo[p])}]
    /\ todo' = [todo EXCEPT ![p] = Tail(@)]
    /\ events' = [i \in 1..Len(events) |->
                    IF events[i].camera_id = Head(todo[p]) /\ ~events[i].is_downloaded
                    THEN [events[i] EXCEPT !.is_orphaned = TRUE]
                    ELSE events[i]]
    /\ UNCHANGED <<nextId, camListing, camUp, dropDir, storage, pc, files,
                   pending, dirty, counters, summary, hist, budget>>
    /\ UNCHANGED <<notifyState, others>>

\* the except branch as it would be if the pass recorded the failed fetch on
\* the camera
CameraFetchFailsMarksOffline(p) ==
    /\ pc[p] = "cameras"
    /\ todo[p] # <<>>
    /\ ~camUp[Head(todo[p])]
    /\ failed' = [failed EXCEPT ![p] = @ \cup {Head(todo[p])}]
    /\ todo' = [todo EXCEPT ![p] = Tail(@)]
    /\ online' = [online EXCEPT ![Head(todo[p])].is_online = FALSE]
    /\ UNCHANGED <<events, nextId, camListing, camUp, dropDir, storage, pc, files,
                   pending, dirty, counters, summary, hist, budget>>
    /\ UNCHANGED <<notifyState, userRows, units, broken, mailDown, dbUp, registered,
                   passLog, mon>>

\* one iteration of the loop over the cameras whose get_events raises
CameraFetchFails(p) ==
    /\ pc[p] = "cameras"
    /\ todo[p] # <<>>
    /\ ~camUp[Head(todo[p])]
    /\ failed' = [failed EXCEPT ![p] = @ \cup {Head(todo[p])}]
    /\ todo' = [todo EXCEPT ![p] = Tail(@)]
    /\ UNCHANGED <<events, nextId, camListing, camUp, dropDir, storage, pc, files,
                   pending, dirty, counters, summary, hist, budget>>
    /\ UNCHANGED <<notifyState, others>>

\* one iteration of the loop over the cameras whose get_events answers; the
\* active users are notified of each row of new_events
CameraSync(p) ==
    /\ pc[p] = "cameras"
    /\ todo[p] # <<>>
    /\ camUp[Head(todo[p])]
    /\ dbUp
    /\ LET camera == Head(todo[p])
           camera_events == ListingOf(camera)
           rows == SessionRows(p)
           existing_events == {rows[i].filename : i \in
                                 {j \in 1..Len(rows) : rows[j].camera_id = camera}}
       IN  \E perm \in Permutations(1..Len(rows)) :
             LET all_existing_events == Reorder(rows, perm)
                 out == ProcessCameraEvents(camera_events, all_existing_events,
                                            existing_events, camera, <<>>)
             IN  /\ pending' = [pending EXCEPT ![p] = @ \o WithIds(out.new, nextId)]
                 /\ nextId' = nextId + Len(out.new)
                 /\ dirty' = [dirty EXCEPT ![p] = @ \cup Backfills(all_existing_events, out.all)]
                 /\ counters' = [counters EXCEPT
                        ![p].total_camera_events = @ + Len(camera_events),
                        ![p].total_new_events = @ + Len(out.new)]
                 /\ IF out.new = <<>> THEN UNCHANGED notifyState
                    ELSE Notified(NotifyNewEvents(NotifyNow, WithIds(out.new, nextId),
                                                  ActiveUsers))
    /\ todo' = [todo EXCEPT ![p] = Tail(@)]
    /\ UNCHANGED <<events, camListing, camUp, dropDir, storage, pc, files,
                   summary, failed, hist, budget>>
    /\ UNCHANGED others

\* the response body
Summary(p) ==
    [new_events |-> counters[p].total_new_events,
     total_events |-> counters[p].total_camera_events,
     cameras_processed |-> Cardinality(counters[p].cameras)]

\* the request goes on with the names left to visit, or returns its summary
\* when none is left; rows is the table as this step leaves it
Continue(p, rest, rows) ==
    /\ files' = [files EXCEPT ![p] = rest]
    /\ IF rest # <<>>
       THEN /\ pc' = [pc EXCEPT ![p] = "ftp_file"]
            /\ UNCHANGED <<summary, hist>>
       ELSE /\ pc' = [pc EXCEPT ![p] = "done"]
            /\ summary' = [summary EXCEPT ![p] = Summary(p)]
            /\ hist' = IF ~hist.clean THEN NoHistory
                       ELSE [hist EXCEPT
                          !.run = IF @ > 0 /\ counters[p].cameras = hist.lastCameras
                                  THEN 2 ELSE 1,
                          !.lastCameras = counters[p].cameras,
                          !.unchanged = (rows = hist.lastEnd),
                          !.lastEnd = rows,
                          !.last = p]

\* the ids of the Events whose dispatch met a failed delivery
FailedDispatches ==
    {attempts[i].msg[2] : i \in {j \in DOMAIN attempts :
        attempts[j].msg[1] = "event_captured" /\ attempts[j].raised}}

\* the commit as it would be if a failed delivery had left the loop over the
\* cameras through the handler at the end of sync_events
CameraCommitUnlessDeliveryFailed(p) ==
    /\ pc[p] = "cameras"
    /\ todo[p] = <<>>
    /\ dbUp
    /\ IF \E j \in DOMAIN pending[p] : pending[p][j].id \in FailedDispatches
       THEN /\ pc' = [pc EXCEPT ![p] = "raised"]
            /\ hist' = NoHistory
            /\ UNCHANGED <<events, files, summary>>
       ELSE /\ events' = SessionRows(p)
            /\ Continue(p, IF ftp_dir THEN dropDir ELSE <<>>, SessionRows(p))
    /\ pending' = [pending EXCEPT ![p] = <<>>]
    /\ dirty' = [dirty EXCEPT ![p] = {}]
    /\ UNCHANGED <<nextId, camListing, camUp, dropDir, storage, todo,
                   counters, failed, budget>>
    /\ UNCHANGED <<notifyState, others>>

\* the commit as it would be followed by an os.listdir of a directory that
\* may be missing, outside any handler but the last
CameraCommitThenListdir(p) ==
    /\ pc[p] = "cameras"
    /\ todo[p] = <<>>
    /\ dbUp
    /\ events' = SessionRows(p)
    /\ pending' = [pending EXCEPT ![p] = <<>>]
    /\ dirty' = [dirty EXCEPT ![p] = {}]
    /\ IF ftp_dir
       THEN Continue(p, dropDir, SessionRows(p))
       ELSE /\ pc' = [pc EXCEPT ![p] = "raised"]
            /\ UNCHANGED <<files, summary, hist>>
    /\ UNCHANGED <<nextId, camListing, camUp, dropDir, storage, todo,
                   counters, failed, budget>>
    /\ UNCHANGED <<notifyState, others>>

\* "Commit all changes" after the loop over the cameras, then os.listdir of
\* the drop directory if os.path.exists finds it
CameraCommit(p) ==
    /\ pc[p] = "cameras"
    /\ todo[p] = <<>>
    /\ dbUp
    /\ events' = SessionRows(p)
    /\ pending' = [pending EXCEPT ![p] = <<>>]
    /\ dirty' = [dirty EXCEPT ![p] = {}]
    /\ Continue(p, IF ftp_dir THEN dropDir ELSE <<>>, SessionRows(p))
    /\ UNCHANGED <<nextId, camListing, camUp, dropDir, storage, todo,
                   counters, failed, budget>>
    /\ UNCHANGED <<notifyState, others>>

\* the update as it would be if it brought a deleted row back
AttachFileRevives(row, fname) ==
    [row EXCEPT !.file_path = <<"ftpdata", fname>>, !.is_downloaded = TRUE,
                !.is_deleted = FALSE]

\* the matching event's row with the drop-directory file attached
AttachFile(row, fname) ==
    [row EXCEPT !.file_path = <<"ftpdata", fname>>, !.is_downloaded = TRUE]

\* one drop-directory name: skipped, or matched and updated, or found to be new
FtpFile(p) ==
    /\ pc[p] = "ftp_file"
    /\ IsVideoFile(Head(files[p])) => dbUp
    /\ LET fname == Head(files[p])
       IN  IF ~IsVideoFile(fname)
           THEN /\ Continue(p, Tail(files[p]), events)
                /\ UNCHANGED events
           ELSE \E perm \in Permutations(1..Len(events)) :
                  LET all_existing_events == Reorder(events, perm)
                      m == find_matching_event_by_filename(all_existing_events, fname)
                  IN  IF m # 0
                      THEN /\ events' = [events EXCEPT ![perm[m]] = AttachFile(@, fname)]
                           /\ Continue(p, Tail(files[p]),
                                       [events EXCEPT ![perm[m]] = AttachFile(@, fname)])
                      ELSE /\ pc' = [pc EXCEPT ![p] = "ftp_create"]
                           /\ UNCHANGED <<events, files, summary, hist>>
    /\ UNCHANGED <<nextId, camListing, camUp, dropDir, storage, todo, pending,
                   dirty, counters, failed, budget>>
    /\ UNCHANGED <<notifyState, others>>

\* the attribution as it would be if the names were not looked at
MatchedCamerasFallbackOnly(fname) == registered

\* the cameras a new drop-directory event can be attributed to: the first of
\* select(Camera), in any order, whose name occurs in the file name, else the first
MatchedCameras(fname) ==
    LET named == {c \in registered : Contains(Lower(fname), Lower(cameraName[c]))}
    IN  IF named # {} THEN named ELSE registered

\* the row the drop directory creates for a name that matched no event
FtpEvent(id, camera, fname) ==
    Event(id, camera, fname, "Motion Event", <<"ftpdata", fname>>, TRUE, None)

\* the name matched no event: create one for it, commit, and notify the
\* active users of it
FtpCreate(p) ==
    /\ pc[p] = "ftp_create"
    /\ dbUp
    /\ \E matched_camera \in MatchedCameras(Head(files[p])) :
         /\ events' = Append(events, FtpEvent(nextId, matched_camera, Head(files[p])))
         /\ Continue(p, Tail(files[p]),
                     Append(events, FtpEvent(nextId, matched_camera, Head(files[p]))))
    /\ nextId' = nextId + 1
    /\ Notified(send_event_notification(NotifyNow, EventMsg(nextId), ActiveUsers))
    /\ UNCHANGED <<camListing, camUp, dropDir, storage, todo, pending, dirty,
                   counters, failed, budget>>
    /\ UNCHANGED others

(* ---------------------------------------------------------------------- *)
(* sync_events when it is refused, when the store is unavailable, and when *)
(* the request is cancelled                                                *)
(* ---------------------------------------------------------------------- *)
\* the request ends in the handler at the end of sync_events before it has
\* visited any camera: HTTP 500 "Failed to sync events"
Refused(p, store_failed) ==
    /\ Resting(p)
    /\ \A q \in Procs : Resting(q)
    /\ budget.passes > 0
    /\ budget' = [budget EXCEPT !.passes = @ - 1]
    /\ pc' = [pc EXCEPT ![p] = "raised"]
    /\ passLog' = [passLog EXCEPT ![p] = [start |-> events, store_failed |-> store_failed]]
    /\ summary' = [summary EXCEPT ![p] = None]
    /\ failed' = [failed EXCEPT ![p] = {}]
    /\ counters' = [counters EXCEPT ![p] = NoCounters]
    /\ hist' = NoHistory
    /\ UNCHANGED <<events, nextId, camListing, camUp, dropDir, storage, todo, files,
                   pending, dirty>>
    /\ UNCHANGED <<notifyState, userRows, units, broken, mailDown, dbUp, registered, online, mon>>

\* the camera asked for is not registered (404), or no camera is (400): the
\* HTTPException is raised inside the try and caught by its "except Exception"
SyncRejected(p, camera_id) ==
    /\ dbUp
    /\ IF camera_id # NoCamera THEN camera_id \notin registered ELSE registered = {}
    /\ Refused(p, FALSE)

\* the select of the cameras raises
SyncStoreDown(p, camera_id) ==
    /\ ~dbUp
    /\ Refused(p, TRUE)

\* the pass of p has met the store unavailable
StoreFailed(p) == passLog' = [passLog EXCEPT ![p].store_failed = TRUE]

\* a statement of a camera's iteration raises: the except branch of the loop
\* logs it and goes on, and so for every camera left, the session's
\* transaction being invalid from then on
CameraStoreDown(p) ==
    /\ pc[p] = "cameras"
    /\ todo[p] # <<>>
    /\ camUp[Head(todo[p])]
    /\ ~dbUp
    /\ failed' = [failed EXCEPT ![p] = @ \cup Range(todo[p])]
    /\ todo' = [todo EXCEPT ![p] = <<>>]
    /\ pc' = [pc EXCEPT ![p] = "invalid"]
    /\ StoreFailed(p)
    /\ UNCHANGED <<events, nextId, camListing, camUp, dropDir, storage, files,
                   pending, dirty, counters, summary, hist, budget>>
    /\ UNCHANGED <<notifyState, userRows, units, broken, mailDown, dbUp, registered, online, mon>>

\* "Commit all changes" raises: the handler at the end answers 500 and get_db
\* rolls the session back
CommitRaises(p) ==
    /\ \/ pc[p] = "invalid"
       \/ pc[p] = "cameras" /\ todo[p] = <<>> /\ ~dbUp
    /\ pc' = [pc EXCEPT ![p] = "raised"]
    /\ pending' = [pending EXCEPT ![p] = <<>>]
    /\ dirty' = [dirty EXCEPT ![p] = {}]
    /\ hist' = NoHistory
    /\ StoreFailed(p)
    /\ UNCHANGED <<events, nextId, camListing, camUp, dropDir, storage, todo, files,
                   counters, summary, failed, budget>>
    /\ UNCHANGED <<notifyState, userRows, units, broken, mailDown, dbUp, registered, online, mon>>

\* a statement of the drop-directory section raises: the except of that
\* section logs it, the names left are not visited and the summary is returned
FtpStoreDown(p) ==
    /\ \/ pc[p] = "ftp_file" /\ IsVideoFile(Head(files[p]))
       \/ pc[p] = "ftp_create"
    /\ ~dbUp
    /\ Continue(p, <<>>, events)
    /\ StoreFailed(p)
    /\ UNCHANGED <<events, nextId, camListing, camUp, dropDir, storage, todo,
                   pending, dirty, counters, failed, budget>>
    /\ UNCHANGED <<notifyState, userRows, units, broken, mailDown, dbUp, registered, online, mon>>

(* ---------------------------------------------------------------------- *)
(* The per-event endpoints                                                 *)
(* ---------------------------------------------------------------------- *)
EventIndexes == 1..Len(events)

\* whether the camera lists a record under exactly this file name
OnCamera(camera, filename) ==
    \E i \in camListing[camera] : CamRecs[i].fileName = filename

UserStep == /\ budget.user > 0
            /\ budget' = [budget EXCEPT !.user = @ - 1]
            /\ hist' = Disturbed

\* download_event, when no local copy exists and the camera serves the file
download_event(i) ==
    /\ UserStep
    /\ ~(events[i].file_path # NoPath /\ events[i].is_downloaded
            /\ PathExists(events[i].file_path))
    /\ camUp[events[i].camera_id]
    /\ OnCamera(events[i].camera_id, events[i].filename)
    /\ storage' = storage \cup {<<events[i].camera_id, events[i].filename>>}
    /\ events' = [events EXCEPT
            ![i].file_path = <<"storage", events[i].camera_id, events[i].filename>>,
            ![i].is_downloaded = TRUE]
    /\ UNCHANGED <<nextId, camListing, camUp, dropDir, pc, todo, files, pending,
                   dirty, counters, summary, failed>>
    /\ UNCHANGED <<notifyState, others>>

\* play_event, when the local file exists
play_event(i) ==
    /\ UserStep
    /\ PathExists(events[i].file_path)
    /\ events' = [events EXCEPT ![i].is_downloaded = TRUE, ![i].is_played = TRUE]
    /\ UNCHANGED <<nextId, camListing, camUp, dropDir, storage, pc, todo, files,
                   pending, dirty, counters, summary, failed>>
    /\ UNCHANGED <<notifyState, others>>

\* the file system without the file a path names
DropDirWithout(path) ==
    IF path # NoPath /\ path[1] = "ftpdata"
    THEN SelectSeq(dropDir, LAMBDA f : f # path[2])
    ELSE dropDir

StorageWithout(path) ==
    IF path # NoPath /\ path[1] = "storage" THEN storage \ {<<path[2], path[3]>>} ELSE storage

\* the delete as it would be if it removed the row
delete_event_hard(i) ==
    /\ UserStep
    /\ camUp[events[i].camera_id]
    /\ events' = [j \in 1..(Len(events) - 1) |-> IF j < i THEN events[j] ELSE events[j + 1]]
    /\ UNCHANGED <<dropDir, storage, camListing>>
    /\ UNCHANGED <<nextId, camUp, pc, todo, files, pending, dirty, counters,
                   summary, failed>>
    /\ UNCHANGED <<notifyState, others>>

\* delete_event, when the camera answers the delete request
delete_event(i) ==
    /\ UserStep
    /\ camUp[events[i].camera_id]
    /\ camListing' = [camListing EXCEPT ![events[i].camera_id] =
            {k \in @ : CamRecs[k].fileName # events[i].filename}]
    /\ dropDir' = DropDirWithout(events[i].file_path)
    /\ storage' = StorageWithout(events[i].file_path)
    /\ events' = [events EXCEPT ![i].is_deleted = TRUE]
    /\ UNCHANGED <<nextId, camUp, pc, todo, files, pending, dirty, counters,
                   summary, failed>>
    /\ UNCHANGED <<notifyState, others>>

\* delete_event_local, when the local file exists
delete_event_local(i) ==
    /\ UserStep
    /\ PathExists(events[i].file_path)
    /\ dropDir' = DropDirWithout(events[i].file_path)
    /\ storage' = StorageWithout(events[i].file_path)
    /\ events' = [events EXCEPT ![i].file_path = NoPath, ![i].is_downloaded = FALSE]
    /\ UNCHANGED <<nextId, camListing, camUp, pc, todo, files, pending, dirty,
                   counters, summary, failed>>
    /\ UNCHANGED <<notifyState, others>>

\* get_event_sync_status: on_camera stays False when the camera query raises
get_event_sync_status(i) ==
    /\ UserStep
    /\ LET on_server == PathExists(events[i].file_path)
           on_camera == /\ camUp[events[i].camera_id]
                        /\ OnCamera(events[i].camera_id, events[i].filename)
       IN  events' = [events EXCEPT ![i].is_downloaded = on_server,
                                    ![i].is_orphaned = ~on_camera /\ ~on_server]
    /\ UNCHANGED <<nextId, camListing, camUp, dropDir, storage, pc, todo, files,
                   pending, dirty, counters, summary, failed>>
    /\ UNCHANGED <<notifyState, others>>

\* refresh_event_sync_status
refresh_event_sync_status(i) ==
    /\ UserStep
    /\ events' = [events EXCEPT ![i].is_downloaded = PathExists(events[i].file_path)]
    /\ UNCHANGED <<nextId, camListing, camUp, dropDir, storage, pc, todo, files,
                   pending, dirty, counters, summary, failed>>
    /\ UNCHANGED <<notifyState, others>>

(* ---------------------------------------------------------------------- *)
(* The environment: cameras record captures and go on and off line, the    *)
(* file transfer service lands files in the drop directory                 *)
(* ---------------------------------------------------------------------- *)
EnvStep == /\ budget.env > 0
           /\ budget' = [budget EXCEPT !.env = @ - 1]
           /\ hist' = Disturbed

CameraCapture(c, k) ==
    /\ EnvStep
    /\ k \in Reports[c]
    /\ k \notin camListing[c]
    /\ camListing' = [camListing EXCEPT ![c] = @ \cup {k}]
    /\ UNCHANGED <<events, nextId, camUp, dropDir, storage, pc, todo, files,
                   pending, dirty, counters, summary, failed>>
    /\ UNCHANGED <<notifyState, others>>

\* a sequence with one more element at position k
InsertAt(s, k, x) == SubSeq(s, 1, k - 1) \o <<x>> \o SubSeq(s, k, Len(s))

\* a file lands; the directory order os.listdir follows is the file system's
FtpArrive(fname) ==
    /\ EnvStep
    /\ ftp_dir
    /\ fname \notin Range(dropDir)
    /\ \E k \in 1..(Len(dropDir) + 1) : dropDir' = InsertAt(dropDir, k, fname)
    /\ UNCHANGED <<events, nextId, camListing, camUp, storage, pc, todo, files,
                   pending, dirty, counters, summary, failed>>
    /\ UNCHANGED <<notifyState, others>>

\* the ftpdata directory is removed with what it holds, or made again
RemoveDropDir ==
    /\ EnvStep
    /\ ftp_dir
    /\ ftp_dir' = FALSE
    /\ dropDir' = <<>>
    /\ UNCHANGED <<events, nextId, camListing, camUp, storage, pc, todo, files,
                   pending, dirty, counters, summary, failed>>
    /\ UNCHANGED <<notifyState, userRows, norm, req, retention, broken, mailDown, dbUp,
                   registered, passLog, online, mon>>

CreateDropDir ==
    /\ EnvStep
    /\ ~ftp_dir
    /\ ftp_dir' = TRUE
    /\ UNCHANGED <<events, nextId, camListing, camUp, dropDir, storage, pc, todo, files,
                   pending, dirty, counters, summary, failed>>
    /\ UNCHANGED <<notifyState, userRows, norm, req, retention, broken, mailDown, dbUp,
                   registered, passLog, online, mon>>

CameraToggle(c) ==
    /\ EnvStep
    /\ camUp' = [camUp EXCEPT ![c] = ~@]
    /\ UNCHANGED <<events, nextId, camListing, dropDir, storage, pc, todo, files,
                   pending, dirty, counters, summary, failed>>
    /\ UNCHANGED <<notifyState, others>>

\* the event store becomes unavailable, or available again
StoreToggle ==
    /\ EnvStep
    /\ dbUp' = ~dbUp
    /\ UNCHANGED <<events, nextId, camListing, camUp, dropDir, storage, pc, todo, files,
                   pending, dirty, counters, summary, failed>>
    /\ UNCHANGED <<notifyState, userRows, units, broken, mailDown, registered, passLog, online, mon>>

\* the request's task is cancelled at an await (shutdown, or the client is
\* gone): the CancelledError passes every "except Exception" and get_db
\* closes the session, which drops what was not committed
Interrupt(p) ==
    /\ EnvStep
    /\ pc[p] \in {"cameras", "invalid", "ftp_file", "ftp_create"}
    /\ pc' = [pc EXCEPT ![p] = "cancelled"]
    /\ pending' = [pending EXCEPT ![p] = <<>>]
    /\ dirty' = [dirty EXCEPT ![p] = {}]
    /\ todo' = [todo EXCEPT ![p] = <<>>]
    /\ files' = [files EXCEPT ![p] = <<>>]
    /\ UNCHANGED <<events, nextId, camListing, camUp, dropDir, storage,
                   counters, summary, failed>>
    /\ UNCHANGED <<notifyState, others>>

\* create_camera: a row of the cameras table
create_camera(c) ==
    /\ dbUp
    /\ c \notin registered
    /\ registered' = registered \cup {c}
    /\ hist' = Disturbed
    /\ UNCHANGED <<events, nextId, camListing, camUp, dropDir, storage, pc, todo, files,
                   pending, dirty, counters, summary, failed, budget>>
    /\ UNCHANGED <<notifyState, userRows, units, broken, mailDown, dbUp, passLog, online, mon>>

(* ---------------------------------------------------------------------- *)
(* Data retention                                                          *)
(* ---------------------------------------------------------------------- *)
\* what the retention endpoints leave alone
RetentionUntouched ==
    /\ UNCHANGED <<nextId, camListing, camUp, dropDir, storage, pc, todo, files,
                   pending, dirty, counters, summary, failed>>
    /\ UNCHANGED <<notifyState, userRows, norm, req, ftp_dir, broken, mailDown, dbUp, registered,
                   passLog, online, mon>>

\* the application settings are saved with retention switched on or off
update_application_settings(enabled) ==
    /\ UserStep
    /\ retention' = [retention EXCEPT !.settings = IF enabled THEN "enabled" ELSE "disabled"]
    /\ UNCHANGED events
    /\ RetentionUntouched

\* cleanup_old_data: nothing without settings or with retention disabled,
\* else delete(Event).where(Event.created_at < event_cutoff).  The mapped
\* ApplicationSettings class declares no data_retention_enabled column (the
\* schemas and the reset endpoint do): where the loaded row lacks the
\* attribute the read raises, the handler rolls back and nothing is removed.
cleanup_old_data ==
    /\ UserStep
    /\ \/ events' = IF retention.settings = "enabled"
                    THEN SelectSeq(events, LAMBDA ev : ev.id > retention.aged)
                    ELSE events
       \/ events' = events
    /\ UNCHANGED retention
    /\ RetentionUntouched

\* time passes: the oldest row not yet older than the retention age becomes so
TimePasses ==
    /\ EnvStep
    /\ retention.aged + 1 < nextId
    /\ retention' = [retention EXCEPT !.aged = @ + 1]
    /\ UNCHANGED events
    /\ RetentionUntouched

(* ---------------------------------------------------------------------- *)
(* The websocket sessions and the mail server                              *)
(* ---------------------------------------------------------------------- *)
NotifyStep == /\ budget.notify > 0
              /\ budget' = [budget EXCEPT !.notify = @ - 1]

SyncUntouched ==
    UNCHANGED <<events, nextId, camListing, camUp, dropDir, storage, pc, todo, files,
                pending, dirty, counters, summary, failed, hist>>

\* websocket_endpoint up to WebSocketManager.connect: a new queue for a user
\* whom get_current_user_ws lets in
connect(user_id) ==
    /\ NotifyStep
    /\ \E u \in Range(userRows) : u.id = user_id /\ u.is_active
    /\ Len(sessions) < MaxSessions
    /\ sessions' = Append(sessions, [user |-> user_id, queue |-> <<>>, state |-> "open"])
    /\ connections' = IF user_id \in DOMAIN connections
                      THEN [connections EXCEPT ![user_id] = @ \cup {Len(sessions) + 1}]
                      ELSE [u \in DOMAIN connections \cup {user_id} |->
                              IF u = user_id THEN {Len(sessions) + 1} ELSE connections[u]]
    /\ SyncUntouched
    /\ UNCHANGED <<attempts, others>>

\* the session's socket closes: the handler leaves its loop and disconnects
disconnect(q) ==
    /\ NotifyStep
    /\ q \in DOMAIN sessions
    /\ sessions[q].state = "open"
    /\ sessions' = [sessions EXCEPT ![q].state = "closed"]
    /\ connections' = Disconnected(connections, sessions[q].user, {q})
    /\ SyncUntouched
    /\ UNCHANGED <<attempts, others>>

\* the handler takes the next message off its queue and sends it to the client
ws_forward(q) ==
    /\ NotifyStep
    /\ q \in DOMAIN sessions
    /\ sessions[q].state = "open"
    /\ sessions[q].queue # <<>>
    /\ sessions' = [sessions EXCEPT ![q].queue = Tail(@)]
    /\ SyncUntouched
    /\ UNCHANGED <<connections, attempts, others>>

\* a session's queue starts to raise on put
QueueBreaks(q) ==
    /\ NotifyStep
    /\ q \in DOMAIN sessions
    /\ q \notin broken
    /\ broken' = broken \cup {q}
    /\ SyncUntouched
    /\ UNCHANGED <<notifyState, userRows, units, mailDown, dbUp, registered, passLog, online, mon>>

\* the SMTP server starts or stops failing for a recipient
MailToggle(user_id) ==
    /\ NotifyStep
    /\ mailDown' = IF user_id \in mailDown THEN mailDown \ {user_id}
                   ELSE mailDown \cup {user_id}
    /\ SyncUntouched
    /\ UNCHANGED <<notifyState, userRows, units, broken, dbUp, registered, passLog, online, mon>>

(* ---------------------------------------------------------------------- *)
(* The background monitors CameraHealthService and TimeSyncService         *)
(* ---------------------------------------------------------------------- *)
MonitorUntouched ==
    /\ SyncUntouched
    /\ UNCHANGED <<userRows, units, broken, mailDown, dbUp, registered, passLog>>

TaskDone(task) == task.at \in {"finished", "cancelled"}

\* start() as it would be without the test of self.running
start_unguarded(svc) ==
    /\ Len(mon[svc].tasks) < MaxTasks
    /\ mon' = [mon EXCEPT ![svc].running = TRUE,
                          ![svc].tasks = Append(@, [at |-> "created", left |-> <<>>,
                                                    cancel |-> FALSE]),
                          ![svc].task = Len(mon[svc].tasks) + 1]
    /\ MonitorUntouched
    /\ UNCHANGED <<notifyState, online, budget>>

\* start(): a second call while running only logs a warning
start(svc) ==
    /\ ~mon[svc].running
    /\ Len(mon[svc].tasks) < MaxTasks
    /\ mon' = [mon EXCEPT ![svc].running = TRUE,
                          ![svc].tasks = Append(@, [at |-> "created", left |-> <<>>,
                                                    cancel |-> FALSE]),
                          ![svc].task = Len(mon[svc].tasks) + 1]
    /\ MonitorUntouched
    /\ UNCHANGED <<notifyState, online, budget>>

\* the test of "while self.running" and what follows it: the next check
\* begins with the select of the active cameras, or the loop ends
LoopTest(svc, t) ==
    IF mon[svc].running
    THEN /\ budget.cycles > 0
         /\ budget' = [budget EXCEPT !.cycles = @ - 1]
         /\ \E order \in SeqsOf(registered) :
              mon' = [mon EXCEPT ![svc].tasks[t].at =
                                    IF order = <<>> THEN "sleeping" ELSE "checking",
                                 ![svc].tasks[t].left = order]
    ELSE /\ mon' = [mon EXCEPT ![svc].tasks[t].at = "finished"]
         /\ UNCHANGED budget

\* the task is scheduled for the first time
TaskRun(svc, t) ==
    /\ t \in DOMAIN mon[svc].tasks
    /\ mon[svc].tasks[t].at = "created"
    /\ ~mon[svc].tasks[t].cancel
    /\ LoopTest(svc, t)
    /\ MonitorUntouched
    /\ UNCHANGED <<notifyState, online>>

\* the iteration as it would be if it notified the users after every probe
CheckCameraNotifiesAlways(svc, t) ==
    /\ t \in DOMAIN mon[svc].tasks
    /\ mon[svc].tasks[t].at = "checking"
    /\ ~mon[svc].tasks[t].cancel
    /\ LET camera == Head(mon[svc].tasks[t].left)
           is_connected == camUp[camera]
       IN  IF svc = "health"
           THEN /\ online' = [online EXCEPT ![camera] =
                                [is_online |-> is_connected,
                                 last_seen |-> IF is_connected THEN @.last_seen + 1
                                                               ELSE @.last_seen]]
                /\ Notified(send_camera_status_notification(
                                NotifyNow, camera, is_connected, ActiveUsers))
           ELSE UNCHANGED <<online, notifyState>>
    /\ mon' = [mon EXCEPT ![svc].tasks[t].left = Tail(@),
                          ![svc].tasks[t].at =
                              IF Tail(mon[svc].tasks[t].left) = <<>> THEN "sleeping" ELSE @]
    /\ MonitorUntouched
    /\ UNCHANGED budget

\* one iteration of the loop over the cameras in _check_all_cameras; after
\* the last camera the task sleeps.  The health check probes the camera,
\* stores and commits is_online and notifies the users of a change; the
\* time check changes nothing that is modelled.
CheckCamera(svc, t) ==
    /\ t \in DOMAIN mon[svc].tasks
    /\ mon[svc].tasks[t].at = "checking"
    /\ ~mon[svc].tasks[t].cancel
    /\ LET camera == Head(mon[svc].tasks[t].left)
           is_connected == camUp[camera]
       IN  IF svc = "health"
           THEN /\ online' = [online EXCEPT ![camera] =
                                [is_online |-> is_connected,
                                 last_seen |-> IF is_connected THEN @.last_seen + 1
                                                               ELSE @.last_seen]]
                /\ IF online[camera].is_online # is_connected
                   THEN Notified(send_camera_status_notification(
                                    NotifyNow, camera, is_connected, ActiveUsers))
                   ELSE UNCHANGED notifyState
           ELSE UNCHANGED <<online, notifyState>>
    /\ mon' = [mon EXCEPT ![svc].tasks[t].left = Tail(@),
                          ![svc].tasks[t].at =
                              IF Tail(mon[svc].tasks[t].left) = <<>> THEN "sleeping" ELSE @]
    /\ MonitorUntouched
    /\ UNCHANGED budget

\* the check interval has passed
Wake(svc, t) ==
    /\ t \in DOMAIN mon[svc].tasks
    /\ mon[svc].tasks[t].at = "sleeping"
    /\ ~mon[svc].tasks[t].cancel
    /\ LoopTest(svc, t)
    /\ MonitorUntouched
    /\ UNCHANGED <<notifyState, online>>

\* the CancelledError is thrown at the await the task is suspended in: a
\* task not yet started ends cancelled; in asyncio.sleep the handler of _run
\* breaks out of the loop; inside _check_all_cameras the "break" in the
\* finally clause discards it, the check returns and the task goes to sleep
Cancelled(svc, t) ==
    /\ t \in DOMAIN mon[svc].tasks
    /\ mon[svc].tasks[t].cancel
    /\ ~TaskDone(mon[svc].tasks[t])
    /\ mon' = [mon EXCEPT ![svc].tasks[t].cancel = FALSE,
                          ![svc].tasks[t].left = <<>>,
                          ![svc].tasks[t].at =
                              CASE @ = "created" -> "cancelled"
                                [] @ = "checking" -> "sleeping"
                                [] OTHER -> "finished"]
    /\ MonitorUntouched
    /\ UNCHANGED <<notifyState, online, budget>>

\* stop() up to "await self.task"
stop(svc) ==
    /\ mon[svc].running
    /\ mon[svc].stop # "waiting"
    /\ LET t == mon[svc].task
       IN  mon' = [mon EXCEPT
                ![svc].running = FALSE,
                ![svc].stop = "waiting",
                ![svc].awaited = t,
                ![svc].tasks = IF t # 0 /\ ~TaskDone(mon[svc].tasks[t])
                               THEN [@ EXCEPT ![t].cancel = TRUE] ELSE @]
    /\ MonitorUntouched
    /\ UNCHANGED <<notifyState, online, budget>>

\* the awaited task is done: stop() returns
StopReturns(svc) ==
    /\ mon[svc].stop = "waiting"
    /\ mon[svc].awaited = 0 \/ TaskDone(mon[svc].tasks[mon[svc].awaited])
    /\ mon' = [mon EXCEPT ![svc].stop = "returned"]
    /\ MonitorUntouched
    /\ UNCHANGED <<notifyState, online, budget>>

(* ---------------------------------------------------------------------- *)
(* Specifications                                                          *)
(* ---------------------------------------------------------------------- *)
SyncStep(p) ==
    \/ CameraFetchFails(p)
    \/ CameraSync(p)
    \/ CameraCommit(p)
    \/ FtpFile(p)
    \/ FtpCreate(p)

UserAction ==
    \E i \in EventIndexes :
        \/ download_event(i)
        \/ play_event(i)
        \/ delete_event(i)
        \/ delete_event_local(i)
        \/ get_event_sync_status(i)
        \/ refresh_event_sync_status(i)

Environment ==
    \/ \E c \in Cameras, k \in 1..Len(CamRecs) : CameraCapture(c, k)
    \/ \E fname \in DropNames : FtpArrive(fname)
    \/ \E c \in Cameras : CameraToggle(c)

\* the endpoints as deployed: nothing keeps two requests from overlapping.
\* The properties are checked under the three restrictions of it below.
Next ==
    \/ \E p \in Procs, camera_id \in Cameras \cup {NoCamera} : SyncStart(p, camera_id)
    \/ \E p \in Procs : SyncStep(p)
    \/ UserAction
    \/ Environment

Spec == Init /\ [][Next]_vars

\* the same requests issued one at a time
SyncStartAlone(p, camera_id) ==
    /\ \A q \in Procs : Resting(q)
    /\ SyncStart(p, camera_id)

NextSerial ==
    \/ \E p \in Procs, camera_id \in Cameras \cup {NoCamera} : SyncStartAlone(p, camera_id)
    \/ \E p \in Procs : SyncStep(p)
    \/ UserAction
    \/ Environment

SerialSpec == Init /\ [][NextSerial]_vars

\* requests issued one at a time while the environment changes, no user at work
NextUnattended ==
    \/ \E p \in Procs, camera_id \in Cameras \cup {NoCamera} : SyncStartAlone(p, camera_id)
    \/ \E p \in Procs : SyncStep(p)
    \/ Environment

UnattendedSpec == InitUnattended /\ [][NextUnattended]_vars

\* the same where the drop directory can go missing
NextMissingDir ==
    \/ NextUnattended
    \/ RemoveDropDir
    \/ CreateDropDir

MissingDirSpec == InitUnattended /\ [][NextMissingDir]_vars

\* overlapping requests while the environment changes, no user at work
NextConcurrent ==
    \/ \E p \in Procs, camera_id \in Cameras \cup {NoCamera} : SyncStart(p, camera_id)
    \/ \E p \in Procs : SyncStep(p)
    \/ Environment

ConcurrentSpec == InitRace /\ [][NextConcurrent]_vars

\* requests issued one at a time while sessions come and go and mail fails
InitNotify == InitWith(Budget(1, MaxNotifyEnvOps, 0, MaxNotifyOps, 0))

NotifyEnvironment ==
    \/ \E u \in UserIds : connect(u)
    \/ \E q \in 1..MaxSessions : disconnect(q)
    \/ \E q \in 1..MaxSessions : ws_forward(q)
    \/ \E q \in 1..MaxSessions : QueueBreaks(q)
    \/ \E u \in UserIds : MailToggle(u)

NextNotify ==
    \/ \E p \in Procs, camera_id \in Cameras \cup {NoCamera} : SyncStartAlone(p, camera_id)
    \/ \E p \in Procs : SyncStep(p)
    \/ Environment
    \/ NotifyEnvironment

NotifySpec == InitNotify /\ [][NextNotify]_vars

\* one pass over two changes of the sources while deliveries fail
InitFailure == InitWith(Budget(1, MaxFailureEnvOps, 0, MaxFailureOps, 0))

FailureSpec == InitFailure /\ [][NextNotify]_vars

\* the same with the first check of the health monitor
InitDispatch == InitWith(Budget(1, MaxNotifyEnvOps, 0, MaxDispatchOps, 1))

HealthStep ==
    \/ start("health")
    \/ \E t \in 1..MaxTasks : TaskRun("health", t)
    \/ \E t \in 1..MaxTasks : CheckCamera("health", t)

NextDispatch ==
    \/ NextNotify
    \/ HealthStep

DispatchSpec == InitDispatch /\ [][NextDispatch]_vars

\* the monitors over their life while cameras go on and off line
InitMonitor ==
    /\ InitWith(Budget(0, MaxMonitorEnvOps, 0, 0, MaxCycles))

MonitorStep ==
    \/ \E svc \in Services : start(svc)
    \/ \E svc \in Services : stop(svc)
    \/ \E svc \in Services : StopReturns(svc)
    \/ \E svc \in Services, t \in 1..MaxTasks : TaskRun(svc, t)
    \/ \E svc \in Services, t \in 1..MaxTasks : CheckCamera(svc, t)
    \/ \E svc \in Services, t \in 1..MaxTasks : Wake(svc, t)
    \/ \E svc \in Services, t \in 1..MaxTasks : Cancelled(svc, t)

NextMonitor ==
    \/ MonitorStep
    \/ \E c \in Cameras : CameraToggle(c)

MonitorSpec == InitMonitor /\ [][NextMonitor]_vars

\* requests issued one at a time on an installation that starts without
\* cameras, while the store comes and goes and requests are cancelled
InitStore == InitOf(Budget(MaxStorePasses, MaxStoreEnvOps, 0, 0, 0), {})

NextStore ==
    \/ \E c \in Cameras : create_camera(c)
    \/ \E p \in Procs, camera_id \in Cameras \cup {NoCamera} : SyncStartAlone(p, camera_id)
    \/ \E p \in Procs, camera_id \in Cameras \cup {NoCamera} : SyncRejected(p, camera_id)
    \/ \E p \in Procs, camera_id \in Cameras \cup {NoCamera} : SyncStoreDown(p, camera_id)
    \/ \E p \in Procs : SyncStep(p)
    \/ \E p \in Procs : CameraStoreDown(p)
    \/ \E p \in Procs : CommitRaises(p)
    \/ \E p \in Procs : FtpStoreDown(p)
    \/ \E p \in Procs : Interrupt(p)
    \/ StoreToggle
    \/ Environment

StoreSpec == InitStore /\ [][NextStore]_vars

\* DELETE /events/{event_id} for a row of the table
DeleteRow(i) ==
    /\ i \in EventIndexes
    /\ delete_event(i)

\* requests issued one at a time, explicit deletes and retention cleanup
\* between them
InitRetention == InitWith(Budget(1, MaxRetentionEnvOps, MaxRetentionUserOps, 0, 0))

NextRetention ==
    \/ \E p \in Procs, camera_id \in Cameras \cup {NoCamera} : SyncStartAlone(p, camera_id)
    \/ \E p \in Procs : SyncStep(p)
    \/ Environment
    \/ TimePasses
    \/ \E i \in 1..MaxRetentionRows : DeleteRow(i)
    \/ \E enabled \in BOOLEAN : update_application_settings(enabled)
    \/ cleanup_old_data

RetentionSpec == InitRetention /\ [][NextRetention]_vars

(* ---------------------------------------------------------------------- *)
(* normalize_filename called on its own                                    *)
(* ---------------------------------------------------------------------- *)
\* what a call of a function examined on its own leaves alone
UnitUntouched ==
    /\ SyncUntouched
    /\ UNCHANGED <<notifyState, userRows, broken, mailDown, dbUp, registered, passLog,
                   online, mon, budget>>

\* the characters of the base names, and the base names
BaseChars == {"a", "C", "1", ".", SharpS}

RECURSIVE NamesUpTo(_)
NamesUpTo(n) ==
    IF n = 0 THEN {<<>>}
    ELSE LET shorter == NamesUpTo(n - 1)
         IN  shorter \cup {Append(s, ch) : s \in shorter, ch \in BaseChars}

\* whether a name ends in one of the extensions, in any letter case
EndsInKnownExtension(name) ==
    \E i \in 1..Len(extensions) : EndsWith(Lower(name), extensions[i])

\* normalize_filename(base + ext), or of its upper-case form
Normalize(base, ext, upper) ==
    LET filename == IF upper THEN Upper(base \o ext) ELSE base \o ext
    IN  /\ norm' = [base |-> base, ext |-> ext, upper |-> upper,
                    filename |-> filename, key |-> normalize_filename(filename)]
        /\ UNCHANGED <<req, retention, ftp_dir>>
        /\ UnitUntouched

InitUnits == InitWith(Budget(0, 0, 0, 0, 0))

NextNormalize ==
    \E base \in NamesUpTo(MaxBaseLen), ext \in Range(extensions) \cup {<<>>}, upper \in BOOLEAN :
        Normalize(base, ext, upper)

NormalizeSpec == InitUnits /\ [][NextNormalize]_vars

(* ---------------------------------------------------------------------- *)
(* CameraClient._make_request, one client per camera                       *)
(* ---------------------------------------------------------------------- *)
\* what a step of a client leaves alone
ClientUntouched ==
    /\ UNCHANGED <<norm, retention, ftp_dir>>
    /\ UnitUntouched

\* the call starts; "for attempt in range(self.retry_attempts)" has no
\* iteration when the setting is 0 and the function ends without a return
make_request(c, retry_attempts) ==
    /\ req[c].at \in {"idle", "returned", "raised"}
    /\ req' = [req EXCEPT ![c] =
                  [NoRequest EXCEPT !.retry_attempts = retry_attempts,
                                    !.at = IF retry_attempts = 0 THEN "returned"
                                           ELSE "requesting"]]
    /\ ClientUntouched

\* the camera answers with a status that raise_for_status accepts: the body
\* is returned
RequestAnswers(c) ==
    /\ req[c].at = "requesting"
    /\ req' = [req EXCEPT ![c].requests = @ + 1,
                          ![c].at = "returned",
                          ![c].response = "body"]
    /\ ClientUntouched

\* the request or raise_for_status raises an httpx.HTTPError: re-raised on
\* the last attempt, else asyncio.sleep(2 ** attempt)
RequestFails(c) ==
    /\ req[c].at = "requesting"
    /\ req' = IF req[c].attempt = req[c].retry_attempts - 1
              THEN [req EXCEPT ![c].requests = @ + 1, ![c].at = "raised"]
              ELSE [req EXCEPT ![c].requests = @ + 1, ![c].at = "sleeping",
                               ![c].slept = Append(@, 2 ^ req[c].attempt)]
    /\ ClientUntouched

\* response.json() raises on the body: not an httpx.HTTPError, so it leaves
\* the loop at once
BodyUnreadable(c) ==
    /\ req[c].at = "requesting"
    /\ req' = [req EXCEPT ![c].requests = @ + 1, ![c].at = "raised"]
    /\ ClientUntouched

\* the sleep is over: the next iteration of the loop
BackoffOver(c) ==
    /\ req[c].at = "sleeping"
    /\ req' = [req EXCEPT ![c].attempt = @ + 1, ![c].at = "requesting"]
    /\ ClientUntouched

NextRequest ==
    \/ \E c \in Cameras, retry_attempts \in 0..MaxRetryAttempts : make_request(c, retry_attempts)
    \/ \E c \in Cameras : RequestAnswers(c)
    \/ \E c \in Cameras : RequestFails(c)
    \/ \E c \in Cameras : BodyUnreadable(c)
    \/ \E c \in Cameras : BackoffOver(c)

RequestSpec == InitUnits /\ [][NextRequest]_vars

(* ---------------------------------------------------------------------- *)
(* Vocabulary of the properties                                            *)
(* ---------------------------------------------------------------------- *)
AllResting == \A p \in Procs : Resting(p)

Key(filename) == normalize_filename(filename)

Live(rows) == {i \in 1..Len(rows) : ~rows[i].is_deleted}

WithKey(rows, key) == {i \in Live(rows) : Key(rows[i].filename) = key}

\* a pass of request p has returned and nothing but the pass happened since
\* it started
QuietlyDone(p) == pc[p] = "done" /\ hist.last = p /\ hist.clean

\* the cameras whose listing the pass of request p has read
Answered(p) == counters[p].cameras \ failed[p]

\* the <<camera, record>> pairs the pass of p has read that carry a key
ReportsOfKey(p, key) ==
    {cr \in Answered(p) \X (1..Len(CamRecs)) :
        cr[2] \in camListing[cr[1]] /\ Key(CamRecs[cr[2]].fileName) = key}

\* the drop-directory names with a key
DropsOfKey(key) == {f \in Range(dropDir) : IsVideoFile(f) /\ Key(f) = key}

\* "on_camera" as EventResponse.status_summary derives it, the only
\* camera-presence mark an Event has
MarkedOnCamera(row) == ~row.is_orphaned /\ ~row.is_downloaded

\* the cameras a response reports as failed
ReportedFailures(response) ==
    IF "failures" \in DOMAIN response THEN response.failures ELSE {}

(* ---------------------------------------------------------------------- *)
(* C1: after sync passes run one at a time, interleaved with user actions, *)
(* no two non-deleted Events have the same normalized filename key, also   *)
(* when one camera listing, two listings or the drop directory hold two    *)
(* raw names with the same key.                                            *)
(* ---------------------------------------------------------------------- *)
C1_OneEventPerKey ==
    AllResting =>
        \A i, j \in Live(events) :
            i # j => Key(events[i].filename) # Key(events[j].filename)

(* ---------------------------------------------------------------------- *)
(* C3: a camera reports "a", the drop directory holds "a.mp4"; after a     *)
(* pass over both exactly one Event has that key, and it is marked both    *)
(* present on the camera and present locally with its local path.          *)
(* ---------------------------------------------------------------------- *)
CrossSourceCase(p) ==
    /\ QuietlyDone(p)
    /\ WithKey(hist.start, Key(F_a)) = {}
    /\ \E c \in Answered(p) : ReportsOfKey(p, Key(F_a)) = {<<c, 1>>}
    /\ F_a_mp4 \in Range(dropDir)

C3_CrossSourceDedup ==
    \A p \in Procs :
        CrossSourceCase(p) =>
            /\ Cardinality(WithKey(events, Key(F_a))) = 1
            /\ \A i \in WithKey(events, Key(F_a)) :
                 /\ events[i].is_downloaded
                 /\ events[i].file_path # NoPath
                 /\ MarkedOnCamera(events[i])

(* ---------------------------------------------------------------------- *)
(* C4: in every reachable state each Event's is_orphaned equals (not       *)
(* present on camera and not present locally), so an Event marked locally  *)
(* present is never orphaned.                                              *)
(* ---------------------------------------------------------------------- *)
C4_OrphanDerivation ==
    \A i \in EventIndexes :
        events[i].is_orphaned =
            (~MarkedOnCamera(events[i]) /\ ~events[i].is_downloaded)

(* ---------------------------------------------------------------------- *)
(* C5: in a pass where the fetch of camera A raises and that of camera B   *)
(* succeeds, B's new events are created and committed, the pass returns a  *)
(* summary, and the summary reports A as a failed camera.                  *)
(* ---------------------------------------------------------------------- *)
C5_PartialFailureIsolation ==
    \A p \in Procs :
        (QuietlyDone(p) /\ failed[p] # {} /\ Answered(p) # {}) =>
            /\ \A b \in Answered(p) : \A k \in camListing[b] :
                 CamRecs[k].triggeredAt = "iso" =>
                    WithKey(events, Key(CamRecs[k].fileName)) # {}
            /\ failed[p] \subseteq ReportedFailures(summary[p])

(* ---------------------------------------------------------------------- *)
(* C7: at most one reconciliation pass executes at any time: a second      *)
(* trigger never runs interleaved with a running pass.                     *)
(* ---------------------------------------------------------------------- *)
C7_OnePassAtATime ==
    Cardinality({p \in Procs : ~Resting(p)}) <= 1

(* ---------------------------------------------------------------------- *)
(* C8: no interleaving of two concurrent sync requests creates two Events  *)
(* for the same drop-directory file or the same camera-reported filename.  *)
(* ---------------------------------------------------------------------- *)
C8_NoDoubleCreation ==
    \A i, j \in Live(events) :
        i # j => events[i].filename # events[j].filename

(* ---------------------------------------------------------------------- *)
(* C10: when the query to an Event's camera fails, no operation records    *)
(* the Event as absent from the camera or marks it orphaned.               *)
(* ---------------------------------------------------------------------- *)
C10_NoOrphanWithoutEvidence ==
    [][\A i \in EventIndexes :
          (~camUp[events[i].camera_id] /\ ~events[i].is_orphaned)
              => ~events'[i].is_orphaned]_vars

(* ---------------------------------------------------------------------- *)
(* C2: when sync_events runs twice in succession and neither the camera    *)
(* listings nor the drop directory change in between, the second run       *)
(* reports new_events = 0 and leaves the Event store unchanged.            *)
(* ---------------------------------------------------------------------- *)
SecondRunDone(p) == pc[p] = "done" /\ hist.last = p /\ hist.run = 2

C2_Idempotence ==
    \A p \in Procs :
        SecondRunDone(p) => summary[p].new_events = 0 /\ hist.unchanged

(* ---------------------------------------------------------------------- *)
(* C6: within every pass all camera records of all cameras are processed   *)
(* before any drop-directory file, so a capture a camera reports as "a"    *)
(* and the drop directory holds as "a.mp4" ends the pass as one merged     *)
(* Event, the camera-created one with the local path, whatever the order   *)
(* of the directory listing.                                               *)
(* ---------------------------------------------------------------------- *)
InDropSection(p) == pc[p] \in {"ftp_file", "ftp_create"}

RowsWithKey(rows, key) == {i \in 1..Len(rows) : Key(rows[i].filename) = key}

TieBreakCase(p) ==
    /\ QuietlyDone(p)
    /\ RowsWithKey(hist.start, Key(F_a)) = {}
    /\ \E c \in Answered(p) : ReportsOfKey(p, Key(F_a)) = {<<c, 1>>}
    /\ DropsOfKey(Key(F_a)) # {}

C6_CameraBeforeDrop ==
    \A p \in Procs :
        /\ InDropSection(p) =>
              todo[p] = <<>> /\ pending[p] = <<>> /\ dirty[p] = {}
        /\ TieBreakCase(p) =>
              \E i \in EventIndexes :
                  /\ RowsWithKey(events, Key(F_a)) = {i}
                  /\ events[i].filename = F_a
                  /\ events[i].event_metadata = "age_dir"
                  /\ events[i].is_downloaded
                  /\ \E f \in DropsOfKey(Key(F_a)) :
                        events[i].file_path = <<"ftpdata", f>>

C6_Witness ==
    /\ TieBreakCase(1)
    /\ Cardinality(DropsOfKey(Key(F_a))) = 2

(* ---------------------------------------------------------------------- *)
(* C9: a failed camera fetch is no evidence: a pass in which the fetch of  *)
(* camera C fails creates, modifies and deletes no Event on account of C,  *)
(* and the failure does not count as C reporting zero events.              *)
(* ---------------------------------------------------------------------- *)
\* no other source of the pass has said anything about the key
NoOtherEvidence(p, key) ==
    ReportsOfKey(p, key) = {} /\ DropsOfKey(key) = {}

C9_FailedFetchIsNoEvidence ==
    \A p \in Procs : \A c \in failed[p] :
        QuietlyDone(p) =>
            /\ Len(events) >= Len(hist.start)
            /\ \A i \in (Len(hist.start) + 1)..Len(events) :
                  ~(events[i].camera_id = c /\ events[i].event_metadata = "age_dir")
            /\ \A i \in 1..Len(hist.start) :
                  hist.start[i].camera_id = c =>
                      /\ events[i].id = hist.start[i].id
                      /\ events[i].is_deleted = hist.start[i].is_deleted
                      /\ events[i].is_orphaned = hist.start[i].is_orphaned
                      /\ NoOtherEvidence(p, Key(hist.start[i].filename)) =>
                            events[i] = hist.start[i]

C9_Witness ==
    /\ QuietlyDone(1)
    /\ \E c \in failed[1] :
          /\ camListing[c] # {}
          /\ \E i \in 1..Len(hist.start) : hist.start[i].camera_id = c

(* ---------------------------------------------------------------------- *)
(* C19: once stop() has been called on a monitor, at any point of its      *)
(* cycle, the awaited task makes no further camera check and does not      *)
(* enter another sleep interval before it ends.                            *)
(* ---------------------------------------------------------------------- *)
StopPending(svc, t) == mon[svc].stop = "waiting" /\ mon[svc].awaited = t

C19_StopsPromptly ==
    [][\A svc \in Services : \A t \in DOMAIN mon[svc].tasks :
          StopPending(svc, t) =>
              /\ mon'[svc].tasks[t].at = "sleeping" => mon[svc].tasks[t].at = "sleeping"
              /\ mon'[svc].tasks[t].at = "checking" =>
                    /\ mon[svc].tasks[t].at = "checking"
                    /\ mon'[svc].tasks[t].left = mon[svc].tasks[t].left]_vars

(* ---------------------------------------------------------------------- *)
(* The log of attempts, read per message, user and channel                 *)
(* ---------------------------------------------------------------------- *)
\* how many calls of a channel the dispatcher made for a message and a user
AttemptsOf(msg, user_id, channel) ==
    Cardinality({i \in DOMAIN attempts :
                    /\ attempts[i].msg = msg
                    /\ attempts[i].user = user_id
                    /\ attempts[i].channel = channel})

\* the event-captured messages dispatched so far
EventMsgs == {attempts[i].msg : i \in {j \in DOMAIN attempts :
                                          attempts[j].msg[1] = "event_captured"}}

\* the row of a user
UserRow(user_id) == CHOOSE u \in Range(userRows) : u.id = user_id

(* ---------------------------------------------------------------------- *)
(* C13: for one new Event the dispatcher makes exactly one push attempt    *)
(* for each active user with event notifications enabled and for nobody    *)
(* else (N attempts for N such users), and one email attempt for each of   *)
(* those users whose email preference is on, none for the others.          *)
(* ---------------------------------------------------------------------- *)
C13_FanOutCompleteness ==
    \A m \in EventMsgs : \A u \in Range(userRows) :
        /\ AttemptsOf(m, u.id, "push") =
              IF u.is_active /\ u.event_notifications THEN 1 ELSE 0
        /\ AttemptsOf(m, u.id, "email") =
              IF u.is_active /\ u.event_notifications /\ u.email_notifications
              THEN 1 ELSE 0

(* ---------------------------------------------------------------------- *)
(* C15: no event-captured email is sent to a user whose preference for     *)
(* event notifications is disabled.                                        *)
(* ---------------------------------------------------------------------- *)
C15_NoEmailWhenEventNotificationsOff ==
    \A i \in DOMAIN attempts :
        (attempts[i].channel = "email" /\ attempts[i].msg \in EventMsgs)
            => UserRow(attempts[i].user).event_notifications

(* ---------------------------------------------------------------------- *)
(* C14: a delivery failure (push or email) for the user at position i of   *)
(* the recipient list does not prevent the attempts for a user at a        *)
(* position j > i, for event and for camera status notifications alike:    *)
(* after every failed attempt the log holds, for each later recipient, a   *)
(* push attempt of the same message and, where that recipient is to be     *)
(* mailed, an email attempt.                                               *)
(* ---------------------------------------------------------------------- *)
\* the place of a user in the list of recipients
Position(user_id) == CHOOSE j \in DOMAIN ActiveUsers : ActiveUsers[j].id = user_id

\* whether the loop mails a message to a user
WantsEmail(user, msg) ==
    user.email_notifications /\ msg[1] # "camera_online"

\* a later entry of the log for the same message, on a channel, to a user
AttemptedAfter(i, user_id, channel) ==
    \E k \in (i + 1)..Len(attempts) :
        /\ attempts[k].msg = attempts[i].msg
        /\ attempts[k].user = user_id
        /\ attempts[k].channel = channel

C14_PerRecipientIsolation ==
    \A i \in DOMAIN attempts :
        attempts[i].raised =>
            \A j \in DOMAIN ActiveUsers :
                Position(attempts[i].user) < j =>
                    /\ AttemptedAfter(i, ActiveUsers[j].id, "push")
                    /\ WantsEmail(ActiveUsers[j], attempts[i].msg) =>
                          AttemptedAfter(i, ActiveUsers[j].id, "email")

\* a failed delivery of an event notification to a user who is not the last
\* of the list, in a run in which a camera status was notified as well
C14_Witness ==
    /\ \E i \in DOMAIN attempts :
          /\ attempts[i].raised
          /\ attempts[i].msg \in EventMsgs
          /\ Position(attempts[i].user) < Len(ActiveUsers)
          /\ AttemptedAfter(i, ActiveUsers[Len(ActiveUsers)].id, "push")
    /\ \E i \in DOMAIN attempts : attempts[i].msg \notin EventMsgs

(* ---------------------------------------------------------------------- *)
(* C16: push delivery is at most once per connected session and there is   *)
(* no offline queue.  In every step, a session queue gains at most as many *)
(* copies of a message as send_to_user was called for its user with that   *)
(* message, and gains none unless the session was registered before the    *)
(* step; each registered session whose put works gains its own copy.       *)
(* ---------------------------------------------------------------------- *)
\* the copies of a message on a queue
Copies(queue, msg) == Cardinality({i \in DOMAIN queue : queue[i] = msg})

\* the calls of send_to_user for a user and a message in a log
PushCalls(log, msg, user_id) ==
    Cardinality({i \in DOMAIN log :
                    /\ log[i].msg = msg
                    /\ log[i].user = user_id
                    /\ log[i].channel = "push"})

\* whether a session is in the registry
Registered(conns, sess, q) ==
    /\ q \in DOMAIN sess
    /\ sess[q].user \in DOMAIN conns
    /\ q \in conns[sess[q].user]

C16_AtMostOncePerSession ==
    [][\A q \in DOMAIN sessions' :
          \A msg \in Range(sessions'[q].queue) \cup {attempts'[i].msg : i \in DOMAIN attempts'} :
              LET before == IF q \in DOMAIN sessions THEN Copies(sessions[q].queue, msg) ELSE 0
                  gained == Copies(sessions'[q].queue, msg) - before
                  calls == PushCalls(attempts', msg, sessions'[q].user)
                             - PushCalls(attempts, msg, sessions'[q].user)
              IN  /\ gained <= calls
                  /\ ~Registered(connections, sessions, q) => gained <= 0
                  /\ (Registered(connections, sessions, q) /\ q \notin broken /\ calls > 0)
                        => gained = calls]_vars

\* a message was pushed to a user with two sessions, each of which holds one
\* copy, and to a user without session
C16_Witness ==
    \E q1, q2 \in DOMAIN sessions : \E i, j \in DOMAIN attempts :
        /\ q1 # q2
        /\ sessions[q1].user = sessions[q2].user
        /\ attempts[i].channel = "push"
        /\ attempts[i].user = sessions[q1].user
        /\ Copies(sessions[q1].queue, attempts[i].msg) = 1
        /\ Copies(sessions[q2].queue, attempts[i].msg) = 1
        /\ attempts[j].channel = "push"
        /\ attempts[j].msg = attempts[i].msg
        /\ attempts[j].user \notin DOMAIN connections

(* ---------------------------------------------------------------------- *)
(* C17: delivery failures are isolated per channel.  For a user the loop   *)
(* mails, every push attempt, failed or not, is followed by the email      *)
(* attempt; every email attempt, failed or not, comes after the push       *)
(* attempt of the same message to the same user, and the step in which an  *)
(* email fails still leaves a copy of the message on every registered      *)
(* session of that user whose put works.                                   *)
(* ---------------------------------------------------------------------- *)
\* the log entries for the same message and user
SameDelivery(a, b) == a.msg = b.msg /\ a.user = b.user

C17_PerChannelIsolation ==
    [][/\ \A i \in DOMAIN attempts' :
             /\ (attempts'[i].channel = "push"
                    /\ WantsEmail(UserRow(attempts'[i].user), attempts'[i].msg))
                   => /\ i < Len(attempts')
                      /\ attempts'[i + 1].channel = "email"
                      /\ SameDelivery(attempts'[i + 1], attempts'[i])
             /\ attempts'[i].channel = "email"
                   => /\ i > 1
                      /\ attempts'[i - 1].channel = "push"
                      /\ SameDelivery(attempts'[i - 1], attempts'[i])
       /\ \A i \in (Len(attempts) + 1)..Len(attempts') :
             (attempts'[i].channel = "email" /\ attempts'[i].raised)
                => \A q \in DOMAIN sessions :
                      (Registered(connections, sessions, q)
                          /\ sessions[q].user = attempts'[i].user /\ q \notin broken)
                         => Copies(sessions'[q].queue, attempts'[i].msg)
                               = Copies(sessions[q].queue, attempts'[i].msg) + 1]_vars

\* a put raised for a user and the email to that user was tried all the
\* same; an email failed for a user to whom the message was pushed
C17_Witness ==
    /\ \E i \in DOMAIN attempts :
          /\ attempts[i].channel = "push"
          /\ attempts[i].raised
          /\ i < Len(attempts)
          /\ attempts[i + 1].channel = "email"
          /\ SameDelivery(attempts[i + 1], attempts[i])
    /\ \E i \in DOMAIN attempts :
          /\ attempts[i].channel = "email"
          /\ attempts[i].raised
          /\ i > 1
          /\ attempts[i - 1].channel = "push"
          /\ SameDelivery(attempts[i - 1], attempts[i])

(* ---------------------------------------------------------------------- *)
(* C18: the summary a pass returns is accurate: new_events is the number   *)
(* of Events the pass created, total_events the number of records reported *)
(* by the cameras whose fetch succeeded, and cameras_processed does not    *)
(* count the cameras whose fetch failed.                                   *)
(* ---------------------------------------------------------------------- *)
\* the records the cameras that answered the pass of p reported
Reported(p) == {cr \in Answered(p) \X (1..Len(CamRecs)) : cr[2] \in camListing[cr[1]]}

C18_SummaryAccurate ==
    \A p \in Procs :
        QuietlyDone(p) =>
            /\ summary[p].new_events = Len(events) - Len(hist.start)
            /\ summary[p].total_events = Cardinality(Reported(p))
            /\ summary[p].cameras_processed = Cardinality(Answered(p))

(* ---------------------------------------------------------------------- *)
(* C11: a sync pass fails to its caller only when the event store is       *)
(* unavailable: whatever the cameras registered (none included), the       *)
(* failed fetches and the drop directory, a request that raised has met    *)
(* the store unavailable.                                                  *)
(* ---------------------------------------------------------------------- *)
C11_RaisesOnlyOnStoreFailure ==
    \A p \in Procs : pc[p] = "raised" => passLog[p].store_failed

(* ---------------------------------------------------------------------- *)
(* C12: once a pass has met the store unavailable, in the camera section,  *)
(* at its commit or in the drop-directory section, it returns no summary   *)
(* and the table is as it was when the pass started.                       *)
(* ---------------------------------------------------------------------- *)
C12_StoreFailureAbortsPass ==
    [][\A p \in Procs :
          (~Resting(p) /\ passLog'[p].store_failed) =>
              /\ pc'[p] # "done"
              /\ events' = passLog'[p].start]_vars

(* ---------------------------------------------------------------------- *)
(* C20: each Event creation or update of a pass is committed on its own:   *)
(* when a pass is interrupted, by a cancellation or by a failure, no       *)
(* mutation of a record it has processed is still uncommitted.             *)
(* ---------------------------------------------------------------------- *)
C20_MutationsCommitIndependently ==
    [][\A p \in Procs :
          (~Resting(p) /\ pc'[p] \in {"raised", "cancelled"}) =>
              /\ pending[p] = <<>>
              /\ dirty[p] = {}]_vars

(* ---------------------------------------------------------------------- *)
(* C21: normalize_filename gives one key to a base name with or without a  *)
(* known extension, in any letter case: for a base name b that does not    *)
(* end in a known extension and a known extension e, the keys of b + e, of *)
(* upper(b + e) and of b are all lower(b).                                 *)
(* ---------------------------------------------------------------------- *)
C21_OneKeyPerBaseName ==
    (norm # NoCall /\ ~EndsInKnownExtension(norm.base))
        => norm.key = Lower(norm.base)

(* ---------------------------------------------------------------------- *)
(* C22: every call of _make_request ends in a response or in an error: it  *)
(* makes at most the configured number of attempts, stops at the first     *)
(* response, sleeps 2^attempt seconds between two attempts, and never      *)
(* returns without a response.                                             *)
(* ---------------------------------------------------------------------- *)
C22_FinalSuccessOrFailure ==
    \A c \in Cameras :
        /\ req[c].requests <= req[c].retry_attempts
        /\ \A i \in DOMAIN req[c].slept : req[c].slept[i] = 2 ^ (i - 1)
        /\ req[c].at \in {"returned", "raised"} =>
              Len(req[c].slept) = req[c].requests - 1
        /\ req[c].at = "returned" => req[c].response = "body"

(* ---------------------------------------------------------------------- *)
(* C23: an explicit delete only sets is_deleted and keeps the row; a row   *)
(* leaves the table only in a retention cleanup, which removes only rows   *)
(* older than the retention age, and none without settings or with         *)
(* retention disabled.                                                     *)
(* ---------------------------------------------------------------------- *)
C23_RowsLeaveOnlyByRetention ==
    [][\A i \in DOMAIN events :
          (retention.settings # "enabled" \/ events[i].id > retention.aged)
              => \E j \in DOMAIN events' :
                    /\ events'[j].id = events[i].id
                    /\ events[i].is_deleted => events'[j].is_deleted]_vars

\* a row deleted explicitly is still in the table with its flag set, and a
\* row older than the retention age was removed by a cleanup
C23_Witness ==
    /\ AllResting
    /\ \E i \in DOMAIN events : events[i].is_deleted
    /\ \E k \in 1..retention.aged : \A i \in DOMAIN events : events[i].id # k

Garbled(c) == {k \in camListing[c] : CamRecs[k].triggeredAt # "iso"}

\* the rows a pass has added to the table it started from
CreatedSince(before) == (Len(before) + 1)..Len(events)

C25_GarbledRecordSkippedAlone ==
    \A p \in Procs :
      /\ pc[p] # "raised"
      /\ (QuietlyDone(p) /\ \E c \in Answered(p) : Garbled(c) # {}) =>
            /\ \A c \in Answered(p) : \A k \in Garbled(c) :
                  \A i \in CreatedSince(hist.start) :
                      ~(events[i].event_metadata = "age_dir"
                        /\ events[i].filename = CamRecs[k].fileName)
            /\ \A c \in Answered(p) : \A k \in camListing[c] \ Garbled(c) :
                  WithKey(events, Key(CamRecs[k].fileName)) # {}
            /\ summary[p].total_events = Cardinality(Reported(p))

\* a pass read a listing with a garbled record followed by a good one, then
\* the listing of another camera, and created a row for the good one
C25_Witness ==
    /\ QuietlyDone(1)
    /\ Answered(1) = Cameras
    /\ hist.start = <<>>
    /\ camListing[2] = {2, 3}
    /\ camListing[1] = {1}
    /\ counters[1].cameras = Cameras
    /\ \E i \in DOMAIN events :
          events[i].camera_id = 2 /\ events[i].filename = F_a_mp4

(* ---------------------------------------------------------------------- *)
(* C26: a missing drop directory counts as no file found: the pass does    *)
(* not fail, what the camera section did is kept and committed, no Event   *)
(* is created or updated from the drop directory, and the summary is       *)
(* returned.                                                               *)
(* ---------------------------------------------------------------------- *)
C26_MissingDropDirectory ==
    \A p \in Procs :
      /\ pc[p] # "raised"
      /\ (QuietlyDone(p) /\ ~ftp_dir) =>
            /\ pending[p] = <<>> /\ dirty[p] = {}
            /\ \A c \in Answered(p) : \A k \in camListing[c] \ Garbled(c) :
                  WithKey(events, Key(CamRecs[k].fileName)) # {}
            /\ Len(events) = Len(hist.start) + summary[p].new_events
            /\ \A i \in CreatedSince(hist.start) :
                  events[i].event_metadata = "age_dir" /\ events[i].file_path = NoPath
            /\ \A i \in 1..Len(hist.start) :
                  /\ events[i].file_path = hist.start[i].file_path
                  /\ events[i].is_downloaded = hist.start[i].is_downloaded

\* a pass over a table with a row made from a file of the directory, now
\* missing, has created a row from a camera listing and returned
C26_Witness ==
    /\ QuietlyDone(1)
    /\ ~ftp_dir
    /\ CreatedSince(hist.start) # {}
    /\ \E i \in 1..Len(hist.start) : hist.start[i].is_downloaded

(* ---------------------------------------------------------------------- *)
(* C27: the comparison uses only non-deleted Events: a camera record or a  *)
(* drop-directory file whose key matches only soft-deleted Events is       *)
(* treated as unmatched, so a new Event is created for it, and the pass    *)
(* neither modifies the soft-deleted Events nor marks them locally present.*)
(* ---------------------------------------------------------------------- *)
\* the keys the sources can report
SourceKeys ==
    {Key(CamRecs[k].fileName) : k \in 1..Len(CamRecs)} \cup {Key(f) : f \in DropNames}

\* the table the pass started from holds the key on soft-deleted rows only
OnlyDeletedMatch(key) ==
    /\ RowsWithKey(hist.start, key) # {}
    /\ \A i \in RowsWithKey(hist.start, key) : hist.start[i].is_deleted

\* a source of the pass of p reports the key in a form the pass accepts
SourceReports(p, key) ==
    \/ \E cr \in ReportsOfKey(p, key) : CamRecs[cr[2]].triggeredAt = "iso"
    \/ DropsOfKey(key) # {}

C27_DedupIgnoresDeleted ==
    \A p \in Procs : \A key \in SourceKeys :
        (QuietlyDone(p) /\ OnlyDeletedMatch(key) /\ SourceReports(p, key)) =>
            /\ WithKey(events, key) # {}
            /\ \A i \in RowsWithKey(hist.start, key) : events[i] = hist.start[i]

(* ---------------------------------------------------------------------- *)
(* C28: a camera record that matches no existing Event, neither by its raw *)
(* name under this camera nor by its key anywhere, creates exactly one new *)
(* Event owned by the reporting camera, and exactly one event-captured     *)
(* dispatch is made for each new Event; the records skipped or merged      *)
(* produce no dispatch.                                                    *)
(* ---------------------------------------------------------------------- *)
\* the well-formed records of the camera's listing that match no row the
\* session of p sees (a raw name known to the camera has a known key)
UnmatchedRecords(p, camera) ==
    {k \in camListing[camera] :
        /\ CamRecs[k].triggeredAt = "iso"
        /\ \A i \in DOMAIN SessionRows(p) :
              Key(SessionRows(p)[i].filename) # Key(CamRecs[k].fileName)}

\* the iteration of the loop over the cameras for a camera that answers
CameraAnswers(p) ==
    /\ pc[p] = "cameras"
    /\ todo[p] # <<>>
    /\ camUp[Head(todo[p])]
    /\ todo'[p] = Tail(todo[p])

C28_OneEventOneDispatch ==
    [][\A p \in Procs :
          CameraAnswers(p) =>
              LET camera == Head(todo[p])
                  added == (Len(pending[p]) + 1)..Len(pending'[p])
                  sent == (Len(attempts) + 1)..Len(attempts')
              IN  /\ Cardinality(added) = Cardinality(UnmatchedRecords(p, camera))
                  /\ \A k \in UnmatchedRecords(p, camera) :
                        Cardinality({j \in added :
                            /\ pending'[p][j].filename = CamRecs[k].fileName
                            /\ pending'[p][j].camera_id = camera}) = 1
                  /\ \A j \in added : \A u \in Range(ActiveUsers) :
                        Cardinality({i \in sent :
                            /\ attempts'[i].msg = EventMsg(pending'[p][j].id)
                            /\ attempts'[i].user = u.id
                            /\ attempts'[i].channel = "push"}) = 1
                  /\ {attempts'[i].msg : i \in sent} =
                        {EventMsg(pending'[p][j].id) : j \in added}]_vars

\* the second of two passes met a record known to the camera by its raw name
\* and one that merged into the same Event: one Event, dispatched once
C28_Witness ==
    /\ QuietlyDone(1)
    /\ camListing[1] = {1, 3}
    /\ Len(hist.start) = 1
    /\ Len(events) = 1
    /\ events[1].filename = F_a /\ events[1].camera_id = 1
    /\ EventMsgs = {EventMsg(1)}
    /\ \A u \in Range(ActiveUsers) : AttemptsOf(EventMsg(1), u.id, "push") = 1

(* ---------------------------------------------------------------------- *)
(* C29: the merge across cameras only backfills: when a camera record      *)
(* matches an existing Event by its key, no new Event is created, each     *)
(* descriptive column (event name, video and thumbnail extension, playback *)
(* time) is written only if it was empty on the existing Event, and the    *)
(* Event's camera_id, filename, time of creation and lifecycle flags are   *)
(* left as they were.                                                      *)
(* ---------------------------------------------------------------------- *)
\* "not value" for a column
Empty(field, value) == IF field = "playback_time" THEN value = NoTime ELSE value = None

\* what a record carries for a column
RecordValue(camera_event, field) ==
    CASE field = "event_name" -> camera_event.eventName
      [] field = "video_extension" -> camera_event.vidExt
      [] field = "thumbnail_extension" -> camera_event.thmbExt
      [] field = "playback_time" -> camera_event.playbackTime

C29_MergeOnlyBackfills ==
    [][\A p \in Procs :
          CameraAnswers(p) =>
              LET camera == Head(todo[p])
                  before == SessionRows(p)
                  after == ApplyDirty(events' \o pending'[p], dirty'[p])
              IN  /\ \A i \in DOMAIN before :
                        /\ after[i].id = before[i].id
                        /\ after[i].camera_id = before[i].camera_id
                        /\ after[i].filename = before[i].filename
                        /\ after[i].event_metadata = before[i].event_metadata
                        /\ after[i].file_path = before[i].file_path
                        /\ after[i].is_downloaded = before[i].is_downloaded
                        /\ after[i].is_deleted = before[i].is_deleted
                        /\ after[i].is_orphaned = before[i].is_orphaned
                        /\ after[i].is_played = before[i].is_played
                        /\ \A f \in DescriptiveFields :
                              after[i][f] # before[i][f] =>
                                  /\ Empty(f, before[i][f])
                                  /\ \E k \in camListing[camera] :
                                        /\ Key(CamRecs[k].fileName) = Key(before[i].filename)
                                        /\ RecordValue(CamRecs[k], f) = after[i][f]
                  /\ \A j \in (Len(before) + 1)..Len(after) :
                        \A i \in DOMAIN before :
                            Key(after[j].filename) # Key(before[i].filename)]_vars

\* the Event made from a file of the drop directory and attributed to camera
\* 1 has taken the extensions and the playback time of the record camera 2
\* reports under the same key, and has kept its name and its camera
C29_Witness ==
    /\ AllResting
    /\ camListing[1] = {}
    /\ 3 \in camListing[2]
    /\ Len(events) = 1
    /\ events[1].camera_id = 1
    /\ events[1].event_metadata = None
    /\ events[1].event_name = "Motion Event"
    /\ events[1].video_extension = "mov"
    /\ events[1].thumbnail_extension = "png"
    /\ events[1].playback_time = 7

(* ---------------------------------------------------------------------- *)
(* C30: a camera record whose exact raw filename already exists among that *)
(* camera's Events is skipped: on its account the pass changes no field of *)
(* that Event, creates no Event and sends no notification.                 *)
(* ---------------------------------------------------------------------- *)
\* the records of the camera's listing whose raw name one of the camera's
\* Events carries in the session of p
KnownRecords(p, camera) ==
    {k \in camListing[camera] :
        \E i \in DOMAIN SessionRows(p) :
            /\ SessionRows(p)[i].camera_id = camera
            /\ SessionRows(p)[i].filename = CamRecs[k].fileName}

\* every record of the listing with the key of record k is a known one
OnlyKnownUnderKey(p, camera, k) ==
    \A k2 \in camListing[camera] :
        Key(CamRecs[k2].fileName) = Key(CamRecs[k].fileName) =>
            k2 \in KnownRecords(p, camera)

C30_KnownRecordSkipped ==
    [][\A p \in Procs :
          CameraAnswers(p) =>
              LET camera == Head(todo[p])
                  before == SessionRows(p)
                  after == ApplyDirty(events' \o pending'[p], dirty'[p])
                  added == (Len(before) + 1)..Len(after)
                  sent == (Len(attempts) + 1)..Len(attempts')
              IN  \A k \in KnownRecords(p, camera) :
                    /\ \A j \in added : after[j].filename # CamRecs[k].fileName
                    /\ {attempts'[i].msg : i \in sent} \subseteq
                          {EventMsg(after[j].id) : j \in added}
                    /\ OnlyKnownUnderKey(p, camera, k) =>
                          /\ \A i \in DOMAIN before :
                                Key(before[i].filename) = Key(CamRecs[k].fileName)
                                    => after[i] = before[i]
                          /\ \A j \in added :
                                Key(after[j].filename) # Key(CamRecs[k].fileName)]_vars

\* a pass found the only Event, made from a file of the drop directory for
\* camera 2, reported by camera 2 under the same raw name, and left it alone
C30_Witness ==
    /\ QuietlyDone(1)
    /\ 2 \in Answered(1)
    /\ 3 \in camListing[2]
    /\ Len(hist.start) = 1
    /\ events = hist.start
    /\ events[1].camera_id = 2
    /\ events[1].filename = F_a_mp4
    /\ events[1].video_extension = None
    /\ EventMsgs = {EventMsg(1)}

(* ---------------------------------------------------------------------- *)
(* C31: a drop-directory file that matches no Event creates one Event      *)
(* marked locally present; its camera is one whose name occurs in the file *)
(* name, whatever the case of the letters, when there is such a camera,    *)
(* and the default camera otherwise; the camera is always a row of the     *)
(* cameras table, and an event-captured message is sent for the Event.     *)
(* ---------------------------------------------------------------------- *)
\* the cameras whose name occurs in a file name
NamedIn(fname) == {c \in registered : Contains(Lower(fname), Lower(cameraName[c]))}

\* the step of request p that handles a drop-directory name found to be new
CreatesFromDrop(p) == pc[p] = "ftp_create" /\ files'[p] = Tail(files[p])

C31_DropFileAttribution ==
    [][\A p \in Procs :
          CreatesFromDrop(p) =>
              LET fname == Head(files[p])
                  sent == (Len(attempts) + 1)..Len(attempts')
              IN  /\ Len(events') = Len(events) + 1
                  /\ SubSeq(events', 1, Len(events)) = events
                  /\ LET event == events'[Len(events')]
                     IN  /\ event.filename = fname
                         /\ event.is_downloaded
                         /\ event.file_path = <<"ftpdata", fname>>
                         /\ event.camera_id \in registered
                         /\ NamedIn(fname) # {} => event.camera_id \in NamedIn(fname)
                         /\ \A u \in Range(ActiveUsers) :
                               Cardinality({i \in sent :
                                   /\ attempts'[i].msg = EventMsg(event.id)
                                   /\ attempts'[i].user = u.id
                                   /\ attempts'[i].channel = "push"}) = 1]_vars

\* the table holds b.avi under camera 2, whose name "B" occurs in it, and
\* a.mp4, in which no camera's name occurs, under camera 1; both were
\* announced
C31_Witness ==
    /\ AllResting
    /\ Len(events) = 2
    /\ \E i, j \in DOMAIN events :
          /\ events[i].filename = F_b_avi /\ events[i].camera_id = 2
          /\ events[i].is_downloaded /\ events[i].event_metadata = None
          /\ events[j].filename = F_a_mp4 /\ events[j].camera_id = 1
          /\ events[j].is_downloaded /\ events[j].event_metadata = None
          /\ EventMsgs = {EventMsg(events[i].id), EventMsg(events[j].id)}

(* ---------------------------------------------------------------------- *)
(* C32: no failure of a notification reaches the pass: when the dispatch   *)
(* of the event-captured message of a new Event fails, the Event is still  *)
(* committed, the remaining cameras and the drop directory are still       *)
(* processed, and the pass returns its summary.                            *)
(* ---------------------------------------------------------------------- *)
C32_NotificationFailureContained ==
    \A p \in Procs :
      /\ pc[p] # "raised"
      /\ (pc[p] = "done" /\ FailedDispatches # {}) =>
            /\ pending[p] = <<>>
            /\ \A id \in FailedDispatches : \E i \in DOMAIN events : events[i].id = id
      /\ (QuietlyDone(p) /\ FailedDispatches # {}) =>
            /\ \A c \in Answered(p) : \A k \in camListing[c] \ Garbled(c) :
                  WithKey(events, Key(CamRecs[k].fileName)) # {}
            /\ \A f \in Range(dropDir) :
                  IsVideoFile(f) =>
                      \E i \in WithKey(events, Key(f)) : events[i].is_downloaded
            /\ summary[p].cameras_processed = Cardinality(counters[p].cameras)

\* the dispatch for the Event of the first camera of a pass failed; the
\* Event is committed, and so is the Event of a file of the drop directory
\* handled after it
C32_Witness ==
    /\ QuietlyDone(1)
    /\ Answered(1) = Cameras
    /\ Len(events) = 2
    /\ events[1].event_metadata = "age_dir"
    /\ events[1].id \in FailedDispatches
    /\ events[2].event_metadata = None
    /\ events[2].filename = F_b_avi

(* ---------------------------------------------------------------------- *)
(* C33: every event-captured message refers to a stored Event: none is     *)
(* dispatched for an Event whose creation is then not committed, as when   *)
(* the commit that ends the camera section fails or the pass ends before   *)
(* it.                                                                     *)
(* ---------------------------------------------------------------------- *)
C33_SignalsReferToStoredEvents ==
    AllResting =>
        \A m \in EventMsgs : \E i \in DOMAIN events : events[i].id = m[2]

(* ---------------------------------------------------------------------- *)
(* The drop directory holding files of other endings                       *)
(* ---------------------------------------------------------------------- *)
F_b_mkv == <<"b", ".", "m", "k", "v">>
F_b_txt == <<"b", ".", "t", "x", "t">>

\* names that end in an extension the scan does not list
OtherDropNames == {F_b_mkv, F_b_txt}

NextExtensions ==
    \/ NextUnattended
    \/ \E fname \in OtherDropNames : FtpArrive(fname)

ExtensionSpec == InitUnattended /\ [][NextExtensions]_vars

\* the scan of pass p takes the next name of its listing
ScansFile(p) ==
    /\ pc[p] = "ftp_file"
    /\ \/ files'[p] = Tail(files[p])
       \/ pc'[p] = "ftp_create"

(* ---------------------------------------------------------------------- *)
(* C34: the scan of the drop directory and normalize_filename agree on the *)
(* known video extensions: a file whose name ends, in any letter case, in  *)
(* an extension normalize_filename strips is matched to an Event or gets   *)
(* one created, and a file of any other ending changes no row and sends    *)
(* no notification.                                                        *)
(* ---------------------------------------------------------------------- *)
C34_ScanAndNormalizerAgree ==
    [][\A p \in Procs :
         ScansFile(p) =>
            LET fname == Head(files[p])
            IN  IF EndsInKnownExtension(fname)
                THEN \/ pc'[p] = "ftp_create"
                     \/ \E i \in WithKey(events, Key(fname)) :
                           events'[i].file_path = <<"ftpdata", fname>>
                ELSE /\ events' = events
                     /\ attempts' = attempts
                     /\ pc'[p] # "ftp_create"]_vars

(* ---------------------------------------------------------------------- *)
(* delete_event, when one of its steps raises                              *)
(* ---------------------------------------------------------------------- *)
\* the steps of delete_event that can raise: the delete request to the
\* camera, os.remove of the local file, the commit of is_deleted
DeleteSteps == {"camera", "remove", "commit"}

\* what the camera reports once it has deleted the file of event i
CameraWithout(i) ==
    [camListing EXCEPT ![events[i].camera_id] =
        {k \in @ : CamRecs[k].fileName # events[i].filename}]

\* the call ends in "except Exception" with HTTP 500: what the steps before
\* the raising one did stays done, and the session is rolled back
delete_event_raises(i, step) ==
    /\ UserStep
    /\ CASE step = "camera" ->
              UNCHANGED <<camListing, dropDir, storage>>
         [] step = "remove" ->
              /\ camUp[events[i].camera_id]
              /\ PathExists(events[i].file_path)
              /\ camListing' = CameraWithout(i)
              /\ UNCHANGED <<dropDir, storage>>
         [] step = "commit" ->
              /\ camUp[events[i].camera_id]
              /\ camListing' = CameraWithout(i)
              /\ dropDir' = DropDirWithout(events[i].file_path)
              /\ storage' = StorageWithout(events[i].file_path)
    /\ UNCHANGED <<events, nextId, camUp, pc, todo, files, pending, dirty, counters,
                   summary, failed>>
    /\ UNCHANGED <<notifyState, others>>

NextDeletion ==
    \/ NextSerial
    \/ \E i \in EventIndexes, step \in DeleteSteps : delete_event_raises(i, step)

DeletionSpec == Init /\ [][NextDeletion]_vars

(* ---------------------------------------------------------------------- *)
(* C35: delete_event is all-or-nothing: when it fails at any step (camera  *)
(* unreachable, camera-side delete error, local file removal error, commit *)
(* error) the camera copy, the local file and is_deleted are as before the *)
(* call, and is_deleted is set only once the camera-side delete and the    *)
(* removal of the local file have both succeeded.                          *)
(* ---------------------------------------------------------------------- *)
C35_DeleteAllOrNothing ==
    [][\A i \in DOMAIN events :
         /\ (\E step \in DeleteSteps : delete_event_raises(i, step)) =>
                /\ camListing' = camListing
                /\ dropDir' = dropDir
                /\ storage' = storage
                /\ events' = events
         /\ delete_event(i) =>
                /\ ~OnCamera(events[i].camera_id, events[i].filename)'
                /\ ~PathExists(events[i].file_path)'
                /\ events'[i].is_deleted]_vars

(* ---------------------------------------------------------------------- *)
(* C36: the health check notifies the users of a camera's status if and    *)
(* only if the probe result differs from the camera's stored is_online:    *)
(* a transition gives one notification, sent with the new flag stored, a   *)
(* check with an unchanged result gives none, and last_seen changes only   *)
(* on a successful probe.                                                  *)
(* ---------------------------------------------------------------------- *)
\* the health task t probes the next camera of its list
HealthChecks(t) ==
    /\ mon["health"].tasks[t].at = "checking"
    /\ ~mon["health"].tasks[t].cancel
    /\ mon'["health"].tasks[t].left = Tail(mon["health"].tasks[t].left)

MaxLifecycleEnvOps == 2
MaxLifecycleUserOps == 2

InitLifecycle == InitWith(Budget(MaxPasses, MaxLifecycleEnvOps, MaxLifecycleUserOps, 0, 0))

LifecycleSpec == InitLifecycle /\ [][NextSerial]_vars

C37_LifecycleFlagsMonotonic ==
    [][\A i \in DOMAIN events : \A j \in DOMAIN events' :
          events'[j].id = events[i].id =>
              /\ events[i].is_played => events'[j].is_played
              /\ events[i].is_deleted => events'[j].is_deleted]_vars

\* an Event was played and deleted, and a pass ran to its end after that
C37_Witness ==
    \E i \in DOMAIN events :
        /\ events[i].is_played
        /\ events[i].is_deleted
        /\ hist.run >= 1

(* ---------------------------------------------------------------------- *)
(* The monitors when each call of start() and stop() is awaited before the *)
(* next one is made                                                        *)
(* ---------------------------------------------------------------------- *)
\* start(), called when no stop() of the service is still awaiting its task
StartAwaited(svc) ==
    /\ mon[svc].stop # "waiting"
    /\ start(svc)

NextCalls ==
    \/ \E svc \in Services : StartAwaited(svc)
    \/ \E svc \in Services : stop(svc)
    \/ \E svc \in Services : StopReturns(svc)
    \/ \E svc \in Services, t \in 1..MaxTasks : TaskRun(svc, t)
    \/ \E svc \in Services, t \in 1..MaxTasks : CheckCamera(svc, t)
    \/ \E svc \in Services, t \in 1..MaxTasks : Wake(svc, t)
    \/ \E svc \in Services, t \in 1..MaxTasks : Cancelled(svc, t)
    \/ \E c \in Cameras : CameraToggle(c)

CallsSpec == InitMonitor /\ [][NextCalls]_vars

(* ---------------------------------------------------------------------- *)
(* C38: each background monitor has at most one live polling task at any   *)
(* time under any sequence of start() and stop() calls: start() while      *)
(* running creates no second task, and after stop() returns the service is *)
(* not running and can be started again.                                   *)
(* ---------------------------------------------------------------------- *)
\* the tasks of a service that have not ended
LiveTasks(svc) == {t \in DOMAIN mon[svc].tasks : ~TaskDone(mon[svc].tasks[t])}

C38_OneLiveTask ==
    [][\A svc \in Services :
          /\ Cardinality(LiveTasks(svc)') <= 1
          /\ Len(mon'[svc].tasks) > Len(mon[svc].tasks) => ~mon[svc].running
          /\ (mon[svc].stop = "waiting" /\ mon'[svc].stop = "returned") =>
                ~mon'[svc].running]_vars

\* a service was started, stopped and started again: its first task has
\* ended and the second is polling
C38_Witness ==
    \E svc \in Services :
        /\ mon[svc].running
        /\ mon[svc].stop = "returned"
        /\ Len(mon[svc].tasks) = 2
        /\ TaskDone(mon[svc].tasks[1])
        /\ mon[svc].tasks[2].at = "checking"

(* ---------------------------------------------------------------------- *)
(* C39: the session registry of WebSocketManager after any interleaving of *)
(* connect, disconnect and send_to_user: active_connections holds a user   *)
(* id exactly when the user has a registered session queue (no entry with  *)
(* an empty set), a connect adds exactly one fresh queue, and the          *)
(* disconnect of an unknown or already removed queue changes nothing.      *)
(* ---------------------------------------------------------------------- *)
\* the queues a registry holds
QueuesIn(conns) == UNION {conns[u] : u \in DOMAIN conns}

C39_SessionRegistry ==
    [][/\ \A u \in DOMAIN connections' :
            /\ connections'[u] # {}
            /\ \A q \in connections'[u] :
                  q \in DOMAIN sessions' /\ sessions'[q].user = u
       /\ Len(sessions') > Len(sessions) =>
            /\ Len(sessions') = Len(sessions) + 1
            /\ Len(sessions') \notin QueuesIn(connections)
            /\ QueuesIn(connections') = QueuesIn(connections) \cup {Len(sessions')}
            /\ sessions'[Len(sessions')].queue = <<>>
       /\ \A q \in DOMAIN sessions :
            (/\ sessions[q].state = "open"
             /\ sessions'[q].state = "closed"
             /\ q \notin QueuesIn(connections)) => connections' = connections]_vars

\* a session whose queue failed was taken out of the registry by
\* send_to_user, which left its user without entry, and was disconnected
\* by its handler afterwards
C39_Witness ==
    \E q \in DOMAIN sessions :
        /\ sessions[q].state = "closed"
        /\ q \in broken
        /\ sessions[q].user \notin DOMAIN connections
        /\ \E i \in DOMAIN attempts :
              /\ attempts[i].user = sessions[q].user
              /\ attempts[i].channel = "push"
              /\ attempts[i].raised

(* ---------------------------------------------------------------------- *)
(* normalize_filename called on names that carry an extension inside       *)
(* ---------------------------------------------------------------------- *)
\* length of the base names that come before the inner extension
MaxStackedBaseLen == 1

NextStacked ==
    \E base \in NamesUpTo(MaxStackedBaseLen), inner \in Range(extensions),
       ext \in Range(extensions) \cup {<<>>}, upper \in BOOLEAN :
        Normalize(base \o inner, ext, upper)

StackedSpec == InitUnits /\ [][NextStacked]_vars

(* ---------------------------------------------------------------------- *)
(* C40: normalize_filename is idempotent: normalizing a key gives the key  *)
(* again, for every file name, the names that carry more than one known    *)
(* extension such as "a.mp4.mp4" or "a.avi.mp4" included.                  *)
(* ---------------------------------------------------------------------- *)
C40_NormalizeIdempotent ==
    norm # NoCall => normalize_filename(norm.key) = norm.key

====
